---- MODULE Spec2Model ----
(***************************************************************************)
(* The reactive runtime of sycamore-reactive: signals (a value and an      *)
(* emitter holding an ordered subscriber map), effects (re-runnable        *)
(* callbacks that rebuild their dependency set on every run), the          *)
(* thread-local execution stack EFFECTS, and scopes (a tree of owners of   *)
(* effects, cleanup callbacks, context values and an arena, released by    *)
(* Scope::dispose).                                                        *)
(*                                                                         *)
(* The runtime is single threaded and re-entrant: a write walks the        *)
(* subscribers, a subscriber's callback may write again.  The model keeps  *)
(* the call stack explicit (`stack`), one frame per running effect         *)
(* callback, per trigger_subscribers walk, per closure being called, per   *)
(* Scope::dispose in progress and per context lookup, and takes one step   *)
(* per statement of a callback or per iteration of a loop.  A panic leaves *)
(* a frame on the stack that nothing resumes.                              *)
(***************************************************************************)
EXTENDS Integers, Sequences, FiniteSets, TLC

\* ------------------------------------------------------------------ bounds
MaxEffects == 3      \* effects created in one run of a program
Modulus == 3         \* signal values are the integers modulo Modulus
MaxScopes == 3       \* scopes created in one run of a program, the root included
MaxRefs == 2         \* values allocated with create_ref in one run of a program

EffectIds == 1..MaxEffects
ScopeIds == 1..MaxScopes
Root == 1

\* The most callbacks one walk can invoke, nested walks included, when k
\* effects are not running: a walk meets at most k subscribers and each of
\* them writes at most once while it runs.
RECURSIVE WalkBound(_)
WalkBound(k) == IF k = 0 THEN 0 ELSE k * (1 + WalkBound(k - 1))

\* callback invocations recorded per top-level call
MaxTrace == WalkBound(MaxEffects) + 1
Vals == 0..(Modulus - 1)
Signals == {"a", "b", "c"}
\* the types of context values (TypeId), and the absent value
Types == {"i32", "bool"}
NoVal == -1
\* the names of the values create_ref allocates, in allocation order
RefNames == [k \in 1..MaxRefs |-> IF k = 1 THEN "r1" ELSE IF k = 2 THEN "r2" ELSE "r3"]

Range(q) == {q[i] : i \in DOMAIN q}
Last(q) == q[Len(q)]
Front(q) == SubSeq(q, 1, Len(q) - 1)

\* ------------------------------------------------- user callbacks (inputs)
\* A callback body is a straight-line program over one accumulator.
Get(s) == [op |-> "get", sig |-> s, f |-> "", body |-> "", to |-> 0]
SetTo(s, fn) == [op |-> "set", sig |-> s, f |-> fn, body |-> "", to |-> 0]
Create(b) == [op |-> "create_effect", sig |-> "", f |-> "", body |-> b, to |-> 0]
\* `outer.create_effect(g)` in the closure of a child scope of `outer`
CreateOuter(b) == [op |-> "create_effect", sig |-> "", f |-> "outer", body |-> b, to |-> 0]
Jz(k) == [op |-> "jz", sig |-> "", f |-> "", body |-> "", to |-> k]
Jmp(k) == [op |-> "jmp", sig |-> "", f |-> "", body |-> "", to |-> k]
GetUntracked(s) == [op |-> "get_untracked", sig |-> s, f |-> "", body |-> "", to |-> 0]
Untrack(b) == [op |-> "untrack", sig |-> "", f |-> "", body |-> b, to |-> 0]
OnCleanup(b) == [op |-> "on_cleanup", sig |-> "", f |-> "", body |-> b, to |-> 0]
\* create_child_scope(b); the disposer it returns is kept by the program
\* ("held"), stored in the slot of the scoped effect ("slot") or dropped.
CreateChild(b, d) == [op |-> "create_child_scope", sig |-> "", f |-> d, body |-> b, to |-> 0]
\* `if let Some(disposer) = disposer.take() { disposer() }` of a scoped effect
TakeDisposer == [op |-> "take_disposer", sig |-> "", f |-> "", body |-> "", to |-> 0]
\* a disposer the program kept is called, if there is one
CallDisposer == [op |-> "call_disposer", sig |-> "", f |-> "", body |-> "", to |-> 0]

\* The closure create_selector_with hands to create_effect:
\* `if let Some(signal) = signal.get() { .. } else { .. }` goes to k while the
\* cell of the output signal is empty;
IfCell(k) == [op |-> "if_cell", sig |-> "", f |-> "", body |-> "", to |-> k]
\* `if !eq_f(&new, &*signal.get()) { .. }`, new being f of the value read,
\* goes to k when eq_f says the two are the same;
EqOld(s, fn, eq, k) == [op |-> "eq_old", sig |-> s, f |-> fn, body |-> eq, to |-> k]
\* `signal.set(Some(self.create_signal(f())))` creates the output signal.
CreateSignal(s, fn) == [op |-> "create_signal", sig |-> s, f |-> fn, body |-> "", to |-> 0]

\* The closure map_keyed hands to create_effect, after it has read the input
\* list: dispose the child scopes of the keys that left the list, one per
\* step;
DisposeRemoved == [op |-> "dispose_removed", sig |-> "", f |-> "", body |-> "", to |-> 0]
\* run the template b in a new child scope for the keys that entered the list,
\* one per step;
MapNew(b) == [op |-> "map_new", sig |-> "", f |-> "", body |-> b, to |-> 0]
\* store the mapped values in the order of the input list.
SetOutput == [op |-> "set_output", sig |-> "", f |-> "", body |-> "", to |-> 0]

\* `panic!()` in a user callback
Panic == [op |-> "panic", sig |-> "", f |-> "", body |-> "", to |-> 0]

\* The value a callback computes from the value it read.
Apply(fn, v) ==
    CASE fn = "double" -> (2 * v) % Modulus
      [] fn = "inc" -> (v + 1) % Modulus
      [] fn = "zero" -> 0
      [] fn = "sign" -> IF v = 0 THEN 0 ELSE 1
      [] OTHER -> v

Code(b) ==
    CASE b = "double" -> <<Get("a"), SetTo("b", "double")>>
      [] b = "loop" -> <<Get("a"), SetTo("a", "zero")>>
      [] b = "ping" -> <<Get("a"), SetTo("b", "inc")>>
      [] b = "pong" -> <<Get("b"), SetTo("a", "inc")>>
      [] b = "twice" -> <<Get("a"), Get("a")>>
      [] b = "both" -> <<Get("a"), Get("b")>>
      [] b = "cond" -> <<Get("c"), Jz(5), Get("a"), Jmp(6), Get("b")>>
      \* `if *c.get() != 0 { a.get(); }`, and `c.set(*a.get())`
      [] b = "gate" -> <<Get("c"), Jz(4), Get("a")>>
      [] b = "shut" -> <<Get("a"), SetTo("c", "same")>>
      [] b = "outer" -> <<Get("a"), Create("inner")>>
      [] b = "inner" -> <<Get("a")>>
      [] b = "outer2" -> <<Get("a"), Create("both")>>
      \* a memo of a read with get_untracked, and a read inside untrack
      [] b = "peek" -> <<GetUntracked("a"), SetTo("b", "double")>>
      [] b = "shield" -> <<Untrack("reada")>>
      [] b = "reada" -> <<Get("a"), SetTo("b", "double")>>
      \* an effect that calls a disposer it was given
      [] b = "reaper" -> <<Get("a"), CallDisposer>>
      \* closures of child scopes
      [] b = "kid" -> <<Create("inner")>>
      [] b = "pyre" -> <<Create("reaper")>>
      [] b = "morgue" -> <<OnCleanup("reap")>>
      [] b = "home" -> <<Create("inner"), CreateChild("kid", "drop"), OnCleanup("bump")>>
      [] b = "nest" -> <<CreateChild("leaf", "drop")>>
      \* cleanup callbacks
      [] b = "reap" -> <<CallDisposer>>
      [] b = "bump" -> <<GetUntracked("a"), SetTo("a", "inc")>>
      [] b = "again" -> <<OnCleanup("again2")>>
      [] b = "again2" -> <<OnCleanup("bump")>>
      [] b = "count" -> <<Get("c"), Get("b"), SetTo("b", "inc")>>
      \* the closure create_effect_scoped hands to create_effect, around the
      \* user function "tick"
      [] b = "scoped_tick" -> <<TakeDisposer, CreateChild("tick", "slot")>>
      [] b = "tick" -> <<Get("a"), OnCleanup("count")>>
      \* a scoped effect whose user function reads a and registers a cleanup
      \* that writes a
      [] b = "scoped_toll" -> <<TakeDisposer, CreateChild("toll", "slot")>>
      [] b = "toll" -> <<Get("a"), OnCleanup("bump")>>
      \* create_memo(|| sign(*a.get())) and create_selector of the same, with
      \* output signal b: the closure of create_selector_with, where every
      \* Get("a") is a call of f
      [] b = "memo" -> <<IfCell(7), Get("a"), EqOld("b", "sign", "never", 9),
                         Get("a"), SetTo("b", "sign"), Jmp(9),
                         Get("a"), CreateSignal("b", "sign")>>
      [] b = "selector" -> <<IfCell(7), Get("a"), EqOld("b", "sign", "eq", 9),
                             Get("a"), SetTo("b", "sign"), Jmp(9),
                             Get("a"), CreateSignal("b", "sign")>>
      \* an effect that reads the memo
      [] b = "watch" -> <<Get("b")>>
      \* effects that read a after a nested run: of an effect they create, of
      \* the effects a write of theirs calls
      [] b = "after" -> <<Create("watch"), Get("a")>>
      [] b = "relay" -> <<SetTo("b", "same"), Get("a")>>
      \* a callback that panics when a is not 0, alone, inside untrack and
      \* inside two untracks
      [] b = "bomb" -> <<Get("a"), Jz(4), Panic>>
      [] b = "shield_bomb" -> <<Untrack("bomb")>>
      [] b = "shield2" -> <<Untrack("shield_bomb")>>
      \* an untrack whose closure writes b, which runs the effects reading b
      [] b = "quiet" -> <<Untrack("poke")>>
      [] b = "poke" -> <<GetUntracked("a"), SetTo("b", "inc")>>
      \* a child scope whose closure creates signal b and an effect of the
      \* parent scope that reads it
      [] b = "den" -> <<CreateSignal("b", "zero"), CreateOuter("both")>>
      \* map_keyed(c, template, key), c holding the input list, and a template
      \* that registers a cleanup
      [] b = "map_keyed" -> <<Get("c"), DisposeRemoved, MapNew("template"), SetOutput>>
      [] b = "template" -> <<OnCleanup("leaf")>>
      [] OTHER -> <<>>

\* The programs explored: the callbacks the top level may register and the
\* signals it created.
\* "emitter" drives the subscriber map of signal a directly, as a unit test of
\* SignalEmitter would.
Programs == {"effect", "loop", "order", "cond", "nested", "nested2", "emitter",
             "untrack", "cancel", "morgue", "cleanup", "again", "scoped", "context",
             "arena", "memo", "selector", "silent", "rc", "panic", "requiem",
             "keyed", "dangling", "feedback", "stale", "attrib"}

\* The programs that end by calling the disposer of the root scope, and the
\* programs that create child scopes from the top level.
ScopePrograms == {"cancel", "morgue", "cleanup", "again", "scoped", "context", "arena",
                  "rc", "requiem"}

TopBodies(p) ==
    CASE p = "effect" -> {"double"}
      [] p = "loop" -> {"loop", "ping", "pong"}
      [] p = "order" -> {"twice", "both"}
      [] p = "cond" -> {"cond"}
      [] p = "nested" -> {"outer"}
      [] p = "nested2" -> {"outer2"}
      [] p = "untrack" -> {"peek", "shield"}
      [] p = "cleanup" -> {"inner"}
      [] p = "scoped" -> {"scoped_tick"}
      [] p = "memo" -> {"memo", "watch", "both"}
      [] p = "selector" -> {"selector", "watch", "both"}
      [] p = "silent" -> {"memo", "watch"}
      [] p = "rc" -> {"inner"}
      [] p = "panic" -> {"bomb", "shield_bomb", "shield2", "quiet", "watch"}
      [] p = "requiem" -> {"scoped_toll"}
      [] p = "keyed" -> {"map_keyed"}
      [] p = "feedback" -> {"memo", "pong"}
      [] p = "stale" -> {"gate", "shut"}
      [] p = "attrib" -> {"watch", "after", "relay"}
      [] OTHER -> {}

\* The closures of create_memo and create_selector.  Their output signal b
\* exists once they have run, and they are called once per program.
MemoBodies == {"memo", "selector"}
MemoPrograms == {"memo", "selector"}

\* the closures the top level may pass to create_child_scope
TopChildren(p) ==
    CASE p = "cancel" -> {"kid", "pyre"}
      [] p = "morgue" -> {"leaf", "morgue"}
      [] p = "cleanup" -> {"home"}
      [] p = "context" -> {"nest"}
      [] p = "dangling" -> {"den"}
      [] OTHER -> {}

\* the callbacks the top level may pass to on_cleanup of the root scope
TopCleanups(p) ==
    CASE p = "cleanup" -> {"bump"}
      [] p = "again" -> {"again", "bump"}
      [] OTHER -> {}

\* How many calls of create_effect, of create_child_scope and of on_cleanup
\* the top level of a program makes at most.
TopCalls(p) ==
    CASE p = "untrack" -> [effects |-> 2, children |-> 0, cleanups |-> 0]
      [] p = "cancel" -> [effects |-> 0, children |-> 2, cleanups |-> 0]
      [] p = "morgue" -> [effects |-> 0, children |-> 2, cleanups |-> 0]
      [] p = "cleanup" -> [effects |-> 1, children |-> 1, cleanups |-> 1]
      [] p = "again" -> [effects |-> 0, children |-> 0, cleanups |-> 2]
      [] p = "scoped" -> [effects |-> 2, children |-> 0, cleanups |-> 0]
      [] p = "context" -> [effects |-> 0, children |-> 1, cleanups |-> 0]
      [] p = "arena" -> [effects |-> 0, children |-> 0, cleanups |-> 0]
      [] p = "silent" -> [effects |-> 2, children |-> 0, cleanups |-> 0]
      [] p = "rc" -> [effects |-> 2, children |-> 0, cleanups |-> 0]
      [] p = "panic" -> [effects |-> 2, children |-> 0, cleanups |-> 0]
      [] p = "requiem" -> [effects |-> 1, children |-> 0, cleanups |-> 0]
      [] p = "keyed" -> [effects |-> 1, children |-> 0, cleanups |-> 0]
      [] p = "feedback" -> [effects |-> 2, children |-> 0, cleanups |-> 0]
      [] p = "stale" -> [effects |-> 2, children |-> 0, cleanups |-> 0]
      [] p = "attrib" -> [effects |-> 2, children |-> 0, cleanups |-> 0]
      [] p = "dangling" -> [effects |-> 0, children |-> 1, cleanups |-> 0]
      [] OTHER -> [effects |-> MaxEffects, children |-> 0, cleanups |-> 0]

\* The values the top level writes to signals: all of them where callbacks
\* compute with what they read.
TopVals(p) ==
    IF p \in {"cancel", "morgue", "cleanup", "again", "arena", "requiem", "attrib"}
    THEN {0} ELSE Vals

\* The scopes on which the top level of a program provides context values.
TopContexts(p) ==
    CASE p = "context" -> ScopeIds
      [] p = "cleanup" -> {Root}
      [] OTHER -> {}

\* The programs whose top level compares signals before and after a call.
Compares(p) == p \in {"untrack", "scoped", "memo", "selector", "silent", "rc", "keyed"}

ProgramSignals(p) ==
    CASE p = "cond" -> {"a", "b", "c"}
      [] p = "nested" -> {"a"}
      [] p = "emitter" -> {"a"}
      [] p = "scoped" -> {"a", "b", "c"}
      [] p = "cancel" -> {"a"}
      [] p = "morgue" -> {}
      [] p = "cleanup" -> {"a"}
      [] p = "again" -> {"a"}
      [] p = "context" -> {}
      [] p = "arena" -> {"a"}
      [] p = "memo" -> {"a"}
      [] p = "selector" -> {"a"}
      [] p = "silent" -> {"a"}
      [] p = "rc" -> {}
      [] p = "requiem" -> {"a"}
      [] p = "keyed" -> {"c"}
      [] p = "dangling" -> {"a"}
      [] p = "feedback" -> {"a"}
      [] p = "stale" -> {"a", "c"}
      [] p = "attrib" -> {"a", "b"}
      [] OTHER -> {"a", "b"}

\* The signals a program creates with create_rc_signal.
RcSignals(p) == IF p = "rc" THEN {"a"} ELSE {}

\* A create_rc_signal that allocates in the arena of the scope it is called in.
AllocatedAll(p) == ProgramSignals(p) \cup RcSignals(p)

\* The signals allocated in the arena of the root scope: Scope::create_signal
\* allocates there, create_rc_signal makes an Rc of its own.
Allocated(p) == ProgramSignals(p)

\* -------------------------------------------------------------------- state
VARIABLES
    program,        \* the program being run (fixed by Init)
    value,          \* ReadSignal.value of every signal
    subscribers,    \* SignalEmitter.0: the keys of the IndexMap, in map order
    insertion,      \* history: subscribers in the order their current subscription was inserted
    body,           \* the user function f captured by each effect ("none": not created)
    parent,         \* history: the effect whose callback created this effect (0: top level)
    effect,         \* the cell Rc<RefCell<Option<EffectState>>>: "Absent", "Some", "None"
    dependencies,   \* EffectState.dependencies
    owner,          \* the scope each effect was created on (`self` of create_effect)
    disposer,       \* the Option<disposer> captured by a scoped effect (0: None)
    scope,          \* the Box of every scope: "Absent", "Live", "Freed"
    scope_parent,   \* Scope.parent (0: None)
    child_scopes,   \* Scope.child_scopes: the children, in slot order
    scope_effects,  \* Scope.effects
    cleanups,       \* Scope.cleanups
    contexts,       \* Scope.contexts
    arena,          \* Scope.arena: ScopeArena.inner
    held,           \* the child disposers the program keeps and has not called
    frees,          \* history: how many times the Box of a scope was taken back and disposed
    registered,     \* history: how many cleanups were registered on a scope
    ran,            \* history: the cleanups of a scope that were called, in call order
    destroyed,      \* history: the context values and arena entries destroyed, in order
    returned,       \* the value the last context lookup returned
    EFFECTS,        \* the thread-local execution stack
    stack,          \* the call stack: frames of running callbacks and walks
    trace,          \* history: callbacks invoked since the last top-level call began
    tracked,        \* history: emitters each callback called track() on in its latest run
    mapped,         \* map_keyed: the key and the child scope of every mapped value
    output,         \* map_keyed: the value of the output signal
    templated,      \* history: the keys the template was called for since the last top-level call
    unseen,         \* history: the dependencies others wrote since the effect last began a run or read them
    last_call       \* history: the last call made from the top level

\* the scope tree; what scopes own besides effects; the histories
tree == <<scope, scope_parent, child_scopes, held, frees>>
goods == <<cleanups, registered, ran, contexts, arena, destroyed, returned>>
\* the state of map_keyed
keyed == <<mapped, output, templated>>

vars == <<program, value, subscribers, insertion, body, parent, effect,
          dependencies, scope_effects, EFFECTS, stack, trace, tracked, last_call,
          owner, disposer, tree, goods, keyed, unseen>>

\* kind: "run" (an effect callback), "walk" (trigger_subscribers), "call" (a
\* closure: of untrack, of a child scope, a cleanup), "dispose"
\* (Scope::dispose), "lookup" (try_use_context), "panic", "fault".
\* ctx: the scope the code refers to; fn: the closure of a call frame and what
\* it returns to; eff, shield: the effect whose callback the code is part of
\* and whether it is inside an untrack closure; saved: the EFFECTS an untrack
\* took (for a run, history: EFFECTS when the callback was called); pass: 1 for a disposal called explicitly, 2 for the one Drop makes;
\* this: the variable `this` of try_use_context;
\* calls (history): how many times the closure of a memo has called the user
\* function f in this run; new: the variable `new` of that closure.
NoFrame == [kind |-> "none", eff |-> 0, pc |-> 0, acc |-> 0, initial |-> FALSE,
            len |-> 0, sig |-> "", snap |-> <<>>, idx |-> 0, order |-> <<>>,
            ctx |-> 0, fn |-> "", ret |-> "", shield |-> FALSE, saved |-> <<>>,
            pass |-> 0, this |-> 0, calls |-> 0, new |-> NoVal]

\* op: the call; sig, eff: its argument; ids: the effects that existed when it
\* began; before, order: the subscriber map of sig and the insertion order of
\* its entries when it began.
\* values: the values of the signals when it began.
\* val: the value a write was given.
NoCall == [op |-> "none", sig |-> "", eff |-> 0, ids |-> 0, before |-> <<>>, order |-> <<>>,
           values |-> <<>>, val |-> NoVal]

SignalOrder == <<"a", "b", "c">>
NoContexts == [t \in Types |-> NoVal]

Init ==
    /\ program \in Programs
    /\ value \in [Signals -> Vals]
    /\ \A s \in Signals \ ProgramSignals(program) : value[s] = 0
    /\ \A s \in Signals : value[s] \in TopVals(program)
    /\ subscribers = [s \in Signals |-> <<>>]
    /\ insertion = [s \in Signals |-> <<>>]
    /\ body = [e \in EffectIds |-> "none"]
    /\ parent = [e \in EffectIds |-> 0]
    /\ effect = [e \in EffectIds |-> "Absent"]
    /\ dependencies = [e \in EffectIds |-> {}]
    /\ owner = [e \in EffectIds |-> 0]
    /\ disposer = [e \in EffectIds |-> 0]
    /\ scope = [sc \in ScopeIds |-> IF sc = Root THEN "Live" ELSE "Absent"]
    /\ scope_parent = [sc \in ScopeIds |-> 0]
    /\ child_scopes = [sc \in ScopeIds |-> <<>>]
    /\ scope_effects = [sc \in ScopeIds |-> <<>>]
    /\ cleanups = [sc \in ScopeIds |-> <<>>]
    /\ contexts = [sc \in ScopeIds |-> NoContexts]
    /\ arena = [sc \in ScopeIds |->
                  IF sc = Root
                  THEN SelectSeq(SignalOrder, LAMBDA x : x \in Allocated(program))
                  ELSE <<>>]
    /\ held = {}
    /\ frees = [sc \in ScopeIds |-> 0]
    /\ registered = [sc \in ScopeIds |-> 0]
    /\ ran = [sc \in ScopeIds |-> <<>>]
    /\ destroyed = <<>>
    /\ returned = NoVal
    /\ EFFECTS = <<>>
    /\ stack = <<>>
    /\ trace = <<>>
    /\ tracked = [e \in EffectIds |-> {}]
    /\ mapped = <<>>
    /\ output = <<>>
    /\ templated = <<>>
    /\ unseen = [e \in EffectIds |-> {}]
    /\ last_call = NoCall

\* ---------------------------------------------------------- SignalEmitter
IndexOf(m, cb) == CHOOSE i \in DOMAIN m : m[i] = cb

\* A subscriber list that appends without looking for the key.
subscribe_push(m, cb) == Append(m, cb)

\* SignalEmitter::subscribe is IndexMap::insert: a key already present keeps
\* its position (its value is replaced by a handle on the same callback).
subscribe(m, cb) == IF cb \in Range(m) THEN m ELSE Append(m, cb)

\* An unsubscribe that leaves the entry in the map.
unsubscribe_noop(m, cb) == m

\* SignalEmitter::unsubscribe is IndexMap::remove, that is swap_remove: the
\* last entry is moved into the place of the removed one.
unsubscribe(m, cb) ==
    IF cb \notin Range(m) THEN m
    ELSE [j \in 1..(Len(m) - 1) |-> IF j = IndexOf(m, cb) THEN m[Len(m)] ELSE m[j]]

\* History of the insertion order: a subscription that ends leaves the list
\* without disturbing the others, a new one goes to the end.
Inserted(m, cb) == IF cb \in Range(m) THEN m ELSE Append(m, cb)
Removed(m, cb) == SelectSeq(m, LAMBDA x : x # cb)

\* trigger_subscribers clones the map before walking it.
Snapshot(m) == m

\* ------------------------------------------------------------- EffectState
\* A clear_dependencies that leaves the backlinks in the emitters.
clear_dependencies_links(subs, deps, cb) == subs

\* EffectState::clear_dependencies, the backlinks: unsubscribe from every
\* emitter of the dependency set.
clear_dependencies(subs, deps, cb) ==
    [s \in Signals |-> IF s \in deps THEN unsubscribe(subs[s], cb) ELSE subs[s]]

\* A clear_dependencies that forgets self.dependencies.clear().
dependencies_keep(deps) == deps

\* EffectState::clear_dependencies, the links: self.dependencies.clear().
dependencies_clear(deps) == {}

\* EffectState::add_dependency
add_dependency(deps, s) == deps \cup {s}

\* A run that ends without adding the backlinks.
resubscribe_none(subs, deps, cb) == subs

\* The re-subscription at the end of a run: subscribe to every emitter the
\* EffectState collected.
resubscribe(subs, deps, cb) ==
    [s \in Signals |-> IF s \in deps THEN subscribe(subs[s], cb) ELSE subs[s]]

\* A track that records the dependency for the bottom of EFFECTS.
track_outer(deps, s) ==
    IF EFFECTS = <<>> THEN deps
    ELSE [deps EXCEPT ![Head(EFFECTS)] = add_dependency(@, s)]

\* SignalEmitter::track: the dependency goes to the top of EFFECTS, if any.
track(deps, s) ==
    IF EFFECTS = <<>> THEN deps
    ELSE [deps EXCEPT ![Last(EFFECTS)] = add_dependency(@, s)]

\* Weak::upgrade on a subscriber: the callback lives as long as its
\* EffectState, which lives in the cell of the effect or, during a run, in the
\* Box that EFFECTS points to.
upgrade(cb) == effect[cb] \in {"Some", "None"}

\* RefCell::try_borrow_mut on the callback cell: the cell is borrowed for as
\* long as the callback is executing, by whoever called it.
try_borrow_mut(cb) == \A i \in DOMAIN stack : ~(stack[i].kind = "run" /\ stack[i].eff = cb)

\* ------------------------------------------------------------------ frames
NextId == Cardinality({e \in EffectIds : body[e] # "none"}) + 1
NextScope == Cardinality({sc \in ScopeIds : scope[sc] # "Absent"}) + 1

Top == stack[Len(stack)]
Running == stack # <<>> /\ Top.kind = "run"
Walking == stack # <<>> /\ Top.kind = "walk"
Calling == stack # <<>> /\ Top.kind = "call"
Disposing == stack # <<>> /\ Top.kind = "dispose"
\* the closure a frame executes
BodyOf(fr) == IF fr.kind = "run" THEN body[fr.eff] ELSE fr.fn
Instr == Code(BodyOf(Top))[Top.pc]
AtOp(o) ==
    /\ Running \/ Calling
    /\ Top.pc <= Len(Code(BodyOf(Top)))
    /\ Instr.op = o
\* the caller's frame once the current statement is done
Advanced == [stack EXCEPT ![Len(stack)].pc = @ + 1]
\* the scope the code that is executing refers to
CurrentCtx == IF stack = <<>> THEN Root ELSE Top.ctx

RunFrame(e, init) ==
    [NoFrame EXCEPT !.kind = "run", !.eff = e, !.pc = 1, !.initial = init,
                    !.len = Len(EFFECTS), !.saved = EFFECTS,
                    !.ctx = IF init THEN CurrentCtx ELSE owner[e]]

\* A set that stores the value and notifies nobody (set_silent).
WalkFrame_silent(s) ==
    [NoFrame EXCEPT !.kind = "walk", !.sig = s, !.snap = Snapshot(subscribers[s]),
                    !.idx = 0, !.order = insertion[s]]

WalkFrame(s) ==
    [NoFrame EXCEPT !.kind = "walk", !.sig = s, !.snap = Snapshot(subscribers[s]),
                    !.idx = Len(subscribers[s]), !.order = insertion[s]]

\* The call of closure b on scope sc, as part of the callback of effect e
\* (0: of none); r says what the caller does when it returns.
CallFrame(b, r, sc, e, sh) ==
    [NoFrame EXCEPT !.kind = "call", !.fn = b, !.ret = r, !.pc = 1, !.ctx = sc,
                    !.eff = e, !.shield = sh]

\* Scope::dispose entered on scope sc.
DisposeFrame(sc, n) == [NoFrame EXCEPT !.kind = "dispose", !.ctx = sc, !.pc = 0, !.pass = n]

\* A panic: nothing below it on the stack resumes.
PanicFrame == [NoFrame EXCEPT !.kind = "panic"]

\* The history of invocations keeps the first MaxTrace entries.
Record(tr, e) == IF Len(tr) < MaxTrace THEN Append(tr, e) ELSE tr

\* A notifying write effect w makes to signal s (w is 0 at the top level) is
\* one every other effect that has s in its dependency set has yet to see.
written(u, s, w) ==
    [e \in EffectIds |-> IF e # w /\ s \in dependencies[e] THEN u[e] \cup {s} ELSE u[e]]

\* The effect that a tracked read of signal s is recorded for has seen every
\* write to s.
seen(u, s) ==
    IF EFFECTS = <<>> THEN u
    ELSE [u EXCEPT ![Last(EFFECTS)] = @ \ {s}]

\* The callback cell of effect e is called (by create_effect or by a walk),
\* up to the call of the user function: the EffectState is taken out of its
\* cell, its dependencies are cleared and it is pushed onto EFFECTS.
callback(e, stk, init, tr) ==
    /\ effect' = [effect EXCEPT ![e] = "None"]
    /\ subscribers' = clear_dependencies(subscribers, dependencies[e], e)
    /\ insertion' = [s \in Signals |->
                        IF s \in dependencies[e] THEN Removed(insertion[s], e)
                        ELSE insertion[s]]
    /\ dependencies' = [dependencies EXCEPT ![e] = dependencies_clear(@)]
    /\ EFFECTS' = Append(EFFECTS, e)
    /\ stack' = Append(stk, RunFrame(e, init))
    /\ trace' = Record(tr, e)
    /\ tracked' = [tracked EXCEPT ![e] = {}]
    /\ unseen' = [unseen EXCEPT ![e] = {}]

\* ------------------------------------------------------------------- scopes
\* A child disposer that leaves the child in the map of its parent.
child_scopes_keep(m, c) == m

\* SlotMap::remove(key) in the disposer of a child scope.
child_scopes_remove(m, c) == SelectSeq(m, LAMBDA x : x # c)

\* The disposer create_child_scope returned for child c is called: the child
\* is removed from the map of its parent, its Box is taken back and disposed;
\* `.unwrap()` panics when the key is no longer in the map.
ChildDisposer(c, stk) ==
    IF c \in Range(child_scopes[scope_parent[c]])
    THEN /\ child_scopes' = [child_scopes EXCEPT
                                ![scope_parent[c]] = child_scopes_remove(@, c)]
         /\ frees' = [frees EXCEPT ![c] = @ + 1]
         /\ stack' = Append(stk, DisposeFrame(c, 1))
    ELSE /\ stack' = Append(stk, PanicFrame)
         /\ UNCHANGED <<child_scopes, frees>>

\* A disposal that keeps the effects of the scope.
effects_keep(eff, es) == eff

\* `drop(self.effects.take())`: an effect that is not running is dropped with
\* its EffectState; one that is running is dropped when its run ends.
effects_drop(eff, es) ==
    [e \in EffectIds |-> IF e \in Range(es) /\ eff[e] = "Some" THEN "Dropped" ELSE eff[e]]

\* An untrack that leaves EFFECTS as it is.
untrack_keep(E) == E

\* untrack: `effects.take()` leaves the stack empty for the closure.
untrack_take(E) == <<>>

\* A disposal that calls the cleanups with EFFECTS as it is.
dispose_tracked(E) == E

\* Scope::dispose calls the cleanups inside untrack.
dispose_untrack(E) == untrack_take(E)

\* ScopeArena::dispose: `for &ptr in &*self.inner.get()`, the order in which
\* the entries are destroyed.
arena_dispose(inner) == inner

\* the arena items among the things destroyed so far
arena_items(d) ==
    LET recs == SelectSeq(d, LAMBDA r : r.kind = "arena")
    IN [i \in 1..Len(recs) |-> recs[i].item]

Destroyed(sc, k, items) == [i \in 1..Len(items) |-> [scope |-> sc, kind |-> k, item |-> items[i]]]

\* Closure b contains a read of signal s.
Reads(b, s) == \E i \in DOMAIN Code(b) : Code(b)[i].op = "get" /\ Code(b)[i].sig = s

\* Signal s was destroyed with the arena it was allocated in.
Dangling(s) == s \in Range(arena_items(destroyed))

\* The top level can pass closure b to create_effect: a memo is created once,
\* and a closure that reads the memo is written after the memo is created.
Creatable(b) ==
    IF b \in MemoBodies
    THEN \A e \in EffectIds : body[e] # b
    ELSE (\E s \in Signals \ (ProgramSignals(program) \cup RcSignals(program)) : Reads(b, s))
         => \E e \in EffectIds : body[e] \in MemoBodies

\* A memo that compares as a selector does.
memo_eq_partial(new, old) == new = old

\* create_memo passes `|_, _| false` as eq_f.
memo_eq(new, old) == FALSE

\* A selector that never finds the values equal.
selector_eq_never(new, old) == FALSE

\* create_selector passes PartialEq::eq as eq_f.
selector_eq(new, old) == new = old

eq_f(eq, new, old) == IF eq = "never" THEN memo_eq(new, old) ELSE selector_eq(new, old)

\* ----------------------------------------------------------------- actions
\* Scope::create_effect called from the top level.
MainCreateEffect(b) ==
    /\ stack = <<>>
    /\ scope[Root] = "Live"
    /\ b \in TopBodies(program)
    /\ Creatable(b)
    /\ NextId <= MaxEffects
    /\ Cardinality({e \in EffectIds : body[e] # "none" /\ parent[e] = 0 /\ owner[e] = Root})
           < TopCalls(program).effects
    /\ body' = [body EXCEPT ![NextId] = b]
    /\ owner' = [owner EXCEPT ![NextId] = Root]
    /\ last_call' = [NoCall EXCEPT !.op = "create_effect", !.eff = NextId, !.ids = NextId - 1]
    /\ callback(NextId, <<>>, TRUE, <<>>)
    /\ UNCHANGED <<program, value, parent, scope_effects, disposer, tree, goods>>
    /\ templated' = <<>>
    /\ UNCHANGED <<mapped, output>>

\* A set that leaves the stored value as it is.
set_value_keep(val, s, v) == val

\* Signal::set, `*self.0.value.borrow_mut() = Rc::new(value)`.
set_value(val, s, v) == [val EXCEPT ![s] = v]

\* Signal::set called from the top level: store, then walk the subscribers.
MainSet(s, v) ==
    /\ stack = <<>>
    /\ scope[Root] = "Live"
    /\ s \in ProgramSignals(program) \cup RcSignals(program)
    /\ v \in TopVals(program)
    /\ value' = set_value(value, s, v)
    /\ stack' = <<WalkFrame(s)>>
    /\ trace' = <<>>
    /\ last_call' = [NoCall EXCEPT !.op = "set", !.sig = s, !.ids = NextId - 1,
                                   !.val = v,
                                   !.before = subscribers[s], !.order = insertion[s],
                                   !.values = IF Compares(program) THEN value ELSE <<>>]
    /\ UNCHANGED <<program, subscribers, insertion, body, parent, effect,
                   dependencies, scope_effects, EFFECTS, tracked, owner, disposer,
                   tree, goods>>
    /\ templated' = <<>>
    /\ unseen' = written(unseen, s, 0)
    /\ UNCHANGED <<mapped, output>>

\* Signal::set called from the top level on a clone of an RcSignal that
\* outlived the root scope.
MainSetRc(s, v) ==
    /\ stack = <<>>
    /\ scope[Root] = "Freed"
    /\ s \in RcSignals(program)
    /\ s \notin Range(arena_items(destroyed))
    /\ v \in TopVals(program)
    /\ value' = set_value(value, s, v)
    /\ stack' = <<WalkFrame(s)>>
    /\ trace' = <<>>
    /\ last_call' = [NoCall EXCEPT !.op = "set", !.sig = s, !.ids = NextId - 1,
                                   !.val = v,
                                   !.before = subscribers[s], !.order = insertion[s],
                                   !.values = value]
    /\ UNCHANGED <<program, subscribers, insertion, body, parent, effect,
                   dependencies, scope_effects, EFFECTS, tracked, owner, disposer,
                   tree, goods>>
    /\ unseen' = written(unseen, s, 0)
    /\ UNCHANGED keyed

\* i32::default()
Default == 0

\* A set_silent that walks the subscribers as set does.
MainSetSilentNotify(s, v) ==
    /\ stack = <<>>
    /\ program = "silent"
    /\ s \in ProgramSignals(program)
    /\ v \in TopVals(program)
    /\ value' = set_value(value, s, v)
    /\ stack' = <<WalkFrame(s)>>
    /\ trace' = <<>>
    /\ last_call' = [NoCall EXCEPT !.op = "set_silent", !.sig = s, !.ids = NextId - 1,
                                   !.val = v, !.values = value]
    /\ UNCHANGED <<program, subscribers, insertion, body, parent, effect,
                   dependencies, scope_effects, EFFECTS, tracked, owner, disposer,
                   tree, goods>>
    /\ UNCHANGED <<keyed, unseen>>

\* Signal::set_silent called from the top level: store, and nothing else.
MainSetSilent(s, v) ==
    /\ stack = <<>>
    /\ program = "silent"
    /\ s \in ProgramSignals(program)
    /\ v \in TopVals(program)
    /\ value' = set_value(value, s, v)
    /\ trace' = <<>>
    /\ last_call' = [NoCall EXCEPT !.op = "set_silent", !.sig = s, !.ids = NextId - 1,
                                   !.val = v, !.values = value]
    /\ UNCHANGED <<program, subscribers, insertion, body, parent, effect,
                   dependencies, scope_effects, EFFECTS, stack, tracked, owner,
                   disposer, tree, goods>>
    /\ UNCHANGED <<keyed, unseen>>

\* Signal::take called from the top level: `self.0.value.take()` leaves the
\* default value, then the subscribers are walked; the old value is returned.
MainTake(s) ==
    /\ stack = <<>>
    /\ program = "silent"
    /\ s \in ProgramSignals(program)
    /\ value' = set_value(value, s, Default)
    /\ returned' = value[s]
    /\ stack' = <<WalkFrame(s)>>
    /\ trace' = <<>>
    /\ last_call' = [NoCall EXCEPT !.op = "take", !.sig = s, !.ids = NextId - 1,
                                   !.val = Default, !.values = value]
    /\ UNCHANGED <<program, subscribers, insertion, body, parent, effect,
                   dependencies, scope_effects, EFFECTS, tracked, owner, disposer,
                   tree, cleanups, registered, ran, contexts, arena, destroyed>>
    /\ unseen' = written(unseen, s, 0)
    /\ UNCHANGED keyed

\* Signal::take_silent called from the top level.
MainTakeSilent(s) ==
    /\ stack = <<>>
    /\ program = "silent"
    /\ s \in ProgramSignals(program)
    /\ value' = set_value(value, s, Default)
    /\ returned' = value[s]
    /\ trace' = <<>>
    /\ last_call' = [NoCall EXCEPT !.op = "take_silent", !.sig = s, !.ids = NextId - 1,
                                   !.val = Default, !.values = value]
    /\ UNCHANGED <<program, subscribers, insertion, body, parent, effect,
                   dependencies, scope_effects, EFFECTS, stack, tracked, owner,
                   disposer, tree, cleanups, registered, ran, contexts, arena,
                   destroyed>>
    /\ UNCHANGED <<keyed, unseen>>

\* SignalEmitter::subscribe called on the emitter of signal a with the handle
\* of callback cb.
EmitterSubscribe(cb) ==
    /\ program = "emitter"
    /\ stack = <<>>
    /\ subscribers' = [subscribers EXCEPT !["a"] = subscribe(@, cb)]
    /\ insertion' = [insertion EXCEPT !["a"] = Inserted(@, cb)]
    /\ last_call' = [NoCall EXCEPT !.op = "subscribe", !.sig = "a", !.eff = cb,
                                   !.before = subscribers["a"], !.order = insertion["a"]]
    /\ UNCHANGED <<program, value, body, parent, effect, dependencies,
                   scope_effects, EFFECTS, stack, trace, tracked, owner, disposer,
                   tree, goods>>
    /\ UNCHANGED <<keyed, unseen>>

\* SignalEmitter::unsubscribe called on the emitter of signal a.
EmitterUnsubscribe(cb) ==
    /\ program = "emitter"
    /\ stack = <<>>
    /\ subscribers' = [subscribers EXCEPT !["a"] = unsubscribe(@, cb)]
    /\ insertion' = [insertion EXCEPT !["a"] = Removed(@, cb)]
    /\ last_call' = [NoCall EXCEPT !.op = "unsubscribe", !.sig = "a", !.eff = cb,
                                   !.before = subscribers["a"], !.order = insertion["a"]]
    /\ UNCHANGED <<program, value, body, parent, effect, dependencies,
                   scope_effects, EFFECTS, stack, trace, tracked, owner, disposer,
                   tree, goods>>
    /\ UNCHANGED <<keyed, unseen>>

\* A callback executes signal.get(): track, then read.
OpGet ==
    /\ AtOp("get")
    /\ dependencies' = track(dependencies, Instr.sig)
    /\ tracked' = IF Top.eff # 0 /\ ~Top.shield
                  THEN [tracked EXCEPT ![Top.eff] = @ \cup {Instr.sig}]
                  ELSE tracked
    /\ stack' = [Advanced EXCEPT ![Len(stack)].acc = value[Instr.sig],
                                 ![Len(stack)].calls = IF BodyOf(Top) \in MemoBodies
                                                       THEN @ + 1 ELSE @]
    /\ UNCHANGED <<program, value, subscribers, insertion, body, parent, effect,
                   scope_effects, EFFECTS, trace, last_call, owner, disposer,
                   tree, goods>>
    /\ unseen' = seen(unseen, Instr.sig)
    /\ UNCHANGED keyed

\* ReadSignal::get_untracked leaves the dependencies alone.
get_untracked(deps, s) == deps

\* A callback executes signal.get_untracked().
OpGetUntracked ==
    /\ AtOp("get_untracked")
    /\ dependencies' = get_untracked(dependencies, Instr.sig)
    /\ stack' = [Advanced EXCEPT ![Len(stack)].acc = value[Instr.sig]]
    /\ UNCHANGED <<program, value, subscribers, insertion, body, parent, effect,
                   scope_effects, EFFECTS, trace, tracked, last_call, owner,
                   disposer, tree, goods>>
    /\ UNCHANGED <<keyed, unseen>>

\* A callback executes signal.set(f(acc)).
OpSet ==
    /\ AtOp("set")
    /\ value' = set_value(value, Instr.sig, Apply(Instr.f, Top.acc))
    /\ stack' = Append(Advanced, WalkFrame(Instr.sig))
    /\ UNCHANGED <<program, subscribers, insertion, body, parent, effect,
                   dependencies, scope_effects, EFFECTS, trace, tracked, last_call,
                   owner, disposer, tree, goods>>
    /\ unseen' = written(unseen, Instr.sig, Top.eff)
    /\ UNCHANGED keyed

\* A callback executes ctx.create_effect(g).
OpCreateEffect ==
    /\ AtOp("create_effect")
    /\ NextId <= MaxEffects
    /\ body' = [body EXCEPT ![NextId] = Instr.body]
    /\ parent' = [parent EXCEPT ![NextId] = Top.eff]
    /\ owner' = [owner EXCEPT ![NextId] = IF Instr.f = "outer" THEN scope_parent[Top.ctx]
                                         ELSE Top.ctx]
    /\ callback(NextId, Advanced, TRUE, trace)
    /\ UNCHANGED <<program, value, scope_effects, last_call, disposer, tree, goods>>
    /\ UNCHANGED keyed

\* A callback branches on the value it read: `if *cond.get() { .. } else { .. }`.
OpJz ==
    /\ AtOp("jz")
    /\ stack' = [stack EXCEPT ![Len(stack)].pc = IF Top.acc = 0 THEN Instr.to ELSE @ + 1]
    /\ UNCHANGED <<program, value, subscribers, insertion, body, parent, effect,
                   dependencies, scope_effects, EFFECTS, trace, tracked, last_call,
                   owner, disposer, tree, goods>>
    /\ UNCHANGED <<keyed, unseen>>

OpJmp ==
    /\ AtOp("jmp")
    /\ stack' = [stack EXCEPT ![Len(stack)].pc = Instr.to]
    /\ UNCHANGED <<program, value, subscribers, insertion, body, parent, effect,
                   dependencies, scope_effects, EFFECTS, trace, tracked, last_call,
                   owner, disposer, tree, goods>>
    /\ UNCHANGED <<keyed, unseen>>

\* A user callback panics: the frames under the panic are unwound.
OpPanic ==
    /\ AtOp("panic")
    /\ stack' = Append(stack, PanicFrame)
    /\ UNCHANGED <<program, value, subscribers, insertion, body, parent, effect,
                   dependencies, scope_effects, EFFECTS, trace, tracked, last_call,
                   owner, disposer, tree, goods>>
    /\ UNCHANGED <<keyed, unseen>>

\* The panic of a user callback unwinds one frame.  The closure of
\* create_effect has no guard: the EffectState stays in the Box it was moved
\* to, its cell stays empty and EFFECTS keeps the pointer.  untrack has none
\* either: the stack it took is dropped, not put back.  The loop of
\* trigger_subscribers only releases its borrow.  Unwinding out of an explicit
\* Scope::dispose drops the Box that holds the scope, and Drop for Scope calls
\* dispose again before the unwinding goes on.  Unwinding is followed in the
\* program whose callbacks panic and in the one whose scoped effect is re-run
\* by a cleanup; elsewhere a panic is terminal.
UnwindStep ==
    /\ program \in {"panic", "requiem"}
    /\ Len(stack) >= 2
    /\ Top.kind = "panic"
    /\ LET under == stack[Len(stack) - 1]
           rest == SubSeq(stack, 1, Len(stack) - 2)
       IN \/ /\ under.kind \in {"run", "walk", "call"}
             /\ stack' = Append(rest, PanicFrame)
          \/ /\ under.kind = "dispose"
             /\ under.pass = 1
             /\ stack' = Append(rest, [DisposeFrame(under.ctx, 2) EXCEPT !.ret = "unwind"])
    /\ UNCHANGED <<program, value, subscribers, insertion, body, parent, effect,
                   dependencies, scope_effects, EFFECTS, trace, tracked, last_call,
                   owner, disposer, tree, goods>>
    /\ UNCHANGED <<keyed, unseen>>

\* The closure of create_selector_with tests the cell of its output signal,
\* which is empty until the first run of the effect has filled it.
OpIfCell ==
    /\ AtOp("if_cell")
    /\ stack' = [stack EXCEPT ![Len(stack)].pc = IF Top.initial THEN Instr.to ELSE @ + 1]
    /\ UNCHANGED <<program, value, subscribers, insertion, body, parent, effect,
                   dependencies, scope_effects, EFFECTS, trace, tracked, last_call,
                   owner, disposer, tree, goods>>
    /\ UNCHANGED <<keyed, unseen>>

\* The closure of create_selector_with compares the value it computed with
\* the one stored, which it reads with a tracked get.
OpEqOld ==
    /\ AtOp("eq_old")
    /\ dependencies' = track(dependencies, Instr.sig)
    /\ tracked' = IF Top.eff # 0 /\ ~Top.shield
                  THEN [tracked EXCEPT ![Top.eff] = @ \cup {Instr.sig}]
                  ELSE tracked
    /\ stack' = [stack EXCEPT ![Len(stack)].pc =
                     IF eq_f(Instr.body, Apply(Instr.f, Top.acc), value[Instr.sig])
                     THEN Instr.to ELSE @ + 1,
                               ![Len(stack)].new = Apply(Instr.f, Top.acc)]
    /\ UNCHANGED <<program, value, subscribers, insertion, body, parent, effect,
                   scope_effects, EFFECTS, trace, last_call, owner, disposer,
                   tree, goods>>
    /\ unseen' = seen(unseen, Instr.sig)
    /\ UNCHANGED keyed

\* The first run of a memo creates its output signal with the value computed:
\* Scope::create_signal allocates it in the arena of the scope.
OpCreateSignal ==
    /\ AtOp("create_signal")
    /\ value' = [value EXCEPT ![Instr.sig] = Apply(Instr.f, Top.acc)]
    /\ arena' = [arena EXCEPT ![Top.ctx] = Append(@, Instr.sig)]
    /\ stack' = Advanced
    /\ UNCHANGED <<program, subscribers, insertion, body, parent, effect,
                   dependencies, scope_effects, EFFECTS, trace, tracked, last_call,
                   owner, disposer, tree, cleanups, registered, ran, contexts,
                   destroyed, returned>>
    /\ UNCHANGED <<keyed, unseen>>

\* A loop that never leaves the subscriber it is at.
rev_stay(i) == i

\* `subscribers.values().rev()`: the position visited after position i.
rev_next(i) == i - 1

\* A walk that calls every subscriber that upgrades, running or not, and an
\* effect that stays subscribed while it runs.
WalkStepReentrant ==
    /\ Walking
    /\ Top.idx > 0
    /\ LET e == Top.snap[Top.idx]
           stk == [stack EXCEPT ![Len(stack)].idx = rev_next(@)]
       IN IF upgrade(e)
          THEN /\ effect' = [effect EXCEPT ![e] = "None"]
               /\ EFFECTS' = Append(EFFECTS, e)
               /\ stack' = Append(stk, RunFrame(e, FALSE))
               /\ trace' = Record(trace, e)
               /\ tracked' = [tracked EXCEPT ![e] = {}]
               /\ unseen' = [unseen EXCEPT ![e] = {}]
               /\ UNCHANGED <<subscribers, insertion, dependencies>>
          ELSE /\ stack' = stk
               /\ UNCHANGED <<subscribers, insertion, effect, dependencies,
                              EFFECTS, trace, tracked, unseen>>
    /\ UNCHANGED <<program, value, body, parent, scope_effects, last_call, owner,
                   disposer, tree, goods>>
    /\ UNCHANGED keyed

\* One iteration of the loop of trigger_subscribers, over the snapshot in
\* reverse: call the subscriber if it upgrades and is not borrowed.
WalkStep ==
    /\ Walking
    /\ Top.idx > 0
    /\ LET e == Top.snap[Top.idx]
           stk == [stack EXCEPT ![Len(stack)].idx = rev_next(@)]
       IN IF upgrade(e) /\ try_borrow_mut(e)
          THEN callback(e, stk, FALSE, trace)
          ELSE /\ stack' = stk
               /\ UNCHANGED <<subscribers, insertion, effect, dependencies,
                              EFFECTS, trace, tracked, unseen>>
    /\ UNCHANGED <<program, value, body, parent, scope_effects, last_call, owner,
                   disposer, tree, goods>>
    /\ UNCHANGED keyed

\* The loop of trigger_subscribers is over: Signal::set returns.
SetReturn ==
    /\ Walking
    /\ Top.idx = 0
    /\ stack' = Front(stack)
    /\ UNCHANGED <<program, value, subscribers, insertion, body, parent, effect,
                   dependencies, scope_effects, EFFECTS, trace, tracked, last_call,
                   owner, disposer, tree, goods>>
    /\ UNCHANGED <<keyed, unseen>>

\* The runtime is about to dereference the emitter of a signal that was
\* destroyed: an effect is called that clears a dependency on it, or ends a run
\* that collected it, or a callback reads it.
DerefsDangling ==
    \/ /\ Walking
       /\ Top.idx > 0
       /\ upgrade(Top.snap[Top.idx])
       /\ try_borrow_mut(Top.snap[Top.idx])
       /\ \E s \in dependencies[Top.snap[Top.idx]] : Dangling(s)
    \/ /\ Running
       /\ Top.pc > Len(Code(body[Top.eff]))
       /\ \E s \in dependencies[Top.eff] : Dangling(s)
    \/ /\ AtOp("get")
       /\ Dangling(Instr.sig)

\* A use of freed memory is undefined: the memory may still hold the emitter,
\* and the step goes on as if it were alive, or the process dies of the fault.
UseAfterFree ==
    /\ DerefsDangling
    /\ stack' = Append(stack, [NoFrame EXCEPT !.kind = "fault"])
    /\ UNCHANGED <<program, value, subscribers, insertion, body, parent, effect,
                   dependencies, scope_effects, EFFECTS, trace, tracked, last_call,
                   owner, disposer, tree, goods, keyed, unseen>>

\* The scopes that hold the Rc of effect e in their list of effects.
Holders(e) == {sc \in ScopeIds : e \in Range(scope_effects[sc])}

\* The user function returned: pop EFFECTS, subscribe to the collected
\* dependencies, put the EffectState back; create_effect then stores the
\* effect in the scope.  A re-run drops its own handle on the effect when it
\* returns, and with it the effect if its scope released it meanwhile.
RunEnd ==
    /\ Running
    /\ Top.pc > Len(Code(body[Top.eff]))
    /\ EFFECTS' = Front(EFFECTS)
    /\ subscribers' = resubscribe(subscribers, dependencies[Top.eff], Top.eff)
    /\ insertion' = [s \in Signals |->
                        IF s \in dependencies[Top.eff] THEN Inserted(insertion[s], Top.eff)
                        ELSE insertion[s]]
    /\ effect' = [effect EXCEPT ![Top.eff] =
                     IF Top.initial \/ Holders(Top.eff) # {} THEN "Some" ELSE "Dropped"]
    /\ scope_effects' = IF Top.initial
                        THEN [scope_effects EXCEPT ![owner[Top.eff]] = Append(@, Top.eff)]
                        ELSE scope_effects
    /\ stack' = Front(stack)
    /\ UNCHANGED <<program, value, body, parent, dependencies, trace, tracked,
                   last_call, owner, disposer, tree, goods>>
    /\ UNCHANGED <<keyed, unseen>>

\* A callback executes untrack(b): EFFECTS is taken for the time of the call.
OpUntrack ==
    /\ AtOp("untrack")
    /\ EFFECTS' = untrack_take(EFFECTS)
    /\ stack' = Append(Advanced,
                       [CallFrame(Instr.body, "untrack", Top.ctx, Top.eff, TRUE)
                           EXCEPT !.saved = EFFECTS])
    /\ UNCHANGED <<program, value, subscribers, insertion, body, parent, effect,
                   dependencies, scope_effects, trace, tracked, last_call, owner,
                   disposer, tree, goods>>
    /\ UNCHANGED <<keyed, unseen>>

\* Scope::on_cleanup(b) on scope sc.
on_cleanup(sc, b) ==
    /\ cleanups' = [cleanups EXCEPT ![sc] = Append(@, [fn |-> b, id |-> registered[sc] + 1])]
    /\ registered' = [registered EXCEPT ![sc] = @ + 1]

\* A callback executes ctx.on_cleanup(b).
OpOnCleanup ==
    /\ AtOp("on_cleanup")
    /\ on_cleanup(Top.ctx, Instr.body)
    /\ stack' = Advanced
    /\ UNCHANGED <<program, value, subscribers, insertion, body, parent, effect,
                   dependencies, scope_effects, EFFECTS, trace, tracked, last_call,
                   owner, disposer, tree, ran, contexts, arena, destroyed, returned>>
    /\ UNCHANGED <<keyed, unseen>>

\* Scope::on_cleanup called on the root scope from the top level.
MainOnCleanup(b) ==
    /\ stack = <<>>
    /\ scope[Root] = "Live"
    /\ b \in TopCleanups(program)
    /\ registered[Root] < TopCalls(program).cleanups
    /\ on_cleanup(Root, b)
    /\ last_call' = [NoCall EXCEPT !.op = "on_cleanup"]
    /\ UNCHANGED <<program, value, subscribers, insertion, body, parent, effect,
                   dependencies, scope_effects, EFFECTS, stack, trace, tracked,
                   owner, disposer, tree, ran, contexts, arena, destroyed, returned>>
    /\ UNCHANGED <<keyed, unseen>>

\* Scope::create_child_scope on scope sc, up to the call of the closure b: the
\* child is allocated, linked to its parent and inserted in the map.
create_child_scope(sc, b, r, e, sh, stk) ==
    /\ NextScope <= MaxScopes
    /\ scope' = [scope EXCEPT ![NextScope] = "Live"]
    /\ scope_parent' = [scope_parent EXCEPT ![NextScope] = sc]
    /\ child_scopes' = [child_scopes EXCEPT ![sc] = Append(@, NextScope)]
    /\ stack' = Append(stk, CallFrame(b, r, NextScope, e, sh))

\* A callback executes ctx.create_child_scope(b).
OpCreateChild ==
    /\ AtOp("create_child_scope")
    /\ create_child_scope(Top.ctx, Instr.body, Instr.f, Top.eff, Top.shield, Advanced)
    /\ UNCHANGED <<program, value, subscribers, insertion, body, parent, effect,
                   dependencies, scope_effects, EFFECTS, trace, tracked, last_call,
                   owner, disposer, held, frees, goods>>
    /\ UNCHANGED <<keyed, unseen>>

\* Scope::create_child_scope called on the root scope from the top level; the
\* program keeps the disposer.
MainCreateChild(b) ==
    /\ stack = <<>>
    /\ scope[Root] = "Live"
    /\ b \in TopChildren(program)
    /\ Cardinality({sc \in ScopeIds : scope_parent[sc] = Root}) < TopCalls(program).children
    /\ create_child_scope(Root, b, "held", 0, FALSE, <<>>)
    /\ trace' = <<>>
    /\ last_call' = [NoCall EXCEPT !.op = "create_child_scope", !.ids = NextId - 1]
    /\ UNCHANGED <<program, value, subscribers, insertion, body, parent, effect,
                   dependencies, scope_effects, EFFECTS, tracked, owner, disposer,
                   held, frees, goods>>
    /\ UNCHANGED <<keyed, unseen>>

\* A closure returned: untrack puts back the EFFECTS it took;
\* create_child_scope returns the disposer, which the caller keeps, stores in
\* the slot of the scoped effect, or drops; a cleanup returns to the disposal.
CallReturn ==
    /\ Calling
    /\ Top.pc > Len(Code(Top.fn))
    /\ stack' = Front(stack)
    /\ EFFECTS' = IF Top.ret = "untrack" THEN Top.saved ELSE EFFECTS
    /\ held' = IF Top.ret = "held" THEN held \cup {Top.ctx} ELSE held
    /\ disposer' = IF Top.ret = "slot" THEN [disposer EXCEPT ![Top.eff] = Top.ctx] ELSE disposer
    /\ UNCHANGED <<program, value, subscribers, insertion, body, parent, effect,
                   dependencies, scope_effects, trace, tracked, last_call, owner,
                   scope, scope_parent, child_scopes, frees, goods>>
    /\ mapped' = IF Top.ret = "mapped"
                 THEN Append(mapped, [key |-> stack[Len(stack) - 1].idx, scope |-> Top.ctx])
                 ELSE mapped
    /\ UNCHANGED <<output, templated, unseen>>

\* A scoped effect that forgets the disposer of its previous run.
OpTakeDisposerForget ==
    /\ AtOp("take_disposer")
    /\ stack' = Advanced
    /\ disposer' = [disposer EXCEPT ![Top.eff] = 0]
    /\ UNCHANGED <<child_scopes, frees>>
    /\ UNCHANGED <<program, value, subscribers, insertion, body, parent, effect,
                   dependencies, scope_effects, EFFECTS, trace, tracked, last_call,
                   owner, scope, scope_parent, held, goods>>
    /\ UNCHANGED <<keyed, unseen>>

\* The closure of a scoped effect disposes the child scope of its previous run.
OpTakeDisposer ==
    /\ AtOp("take_disposer")
    /\ IF disposer[Top.eff] = 0
       THEN /\ stack' = Advanced
            /\ UNCHANGED <<disposer, child_scopes, frees>>
       ELSE /\ disposer' = [disposer EXCEPT ![Top.eff] = 0]
            /\ ChildDisposer(disposer[Top.eff], Advanced)
    /\ UNCHANGED <<program, value, subscribers, insertion, body, parent, effect,
                   dependencies, scope_effects, EFFECTS, trace, tracked, last_call,
                   owner, scope, scope_parent, held, goods>>
    /\ UNCHANGED <<keyed, unseen>>

\* A callback calls a disposer the program kept, if it finds one.
OpCallDisposer ==
    /\ AtOp("call_disposer")
    /\ IF held = {}
       THEN /\ stack' = Advanced
            /\ UNCHANGED <<held, child_scopes, frees>>
       ELSE \E c \in held :
               /\ held' = held \ {c}
               /\ ChildDisposer(c, Advanced)
    /\ UNCHANGED <<program, value, subscribers, insertion, body, parent, effect,
                   dependencies, scope_effects, EFFECTS, trace, tracked, last_call,
                   owner, disposer, scope, scope_parent, goods>>
    /\ UNCHANGED <<keyed, unseen>>

\* ---------------------------------------------------------------- map_keyed
\* The input lists the program writes to signal c, by the value that stands
\* for them; an item of an input list is given by its key.
Lists(v) ==
    CASE v = 0 -> <<1>>
      [] v = 1 -> <<2>>
      [] v = 2 -> <<2, 1>>
      [] OTHER -> <<1, 2>>

\* the keys of a mapping
Keys(m) == {m[i].key : i \in DOMAIN m}

\* A diff that takes every item of the input for new.
NewKeysAll(list, m) == list

\* The keys newly present in the input, in input order.
NewKeys(list, m) == SelectSeq(list, LAMBDA k : k \notin Keys(m))

\* The entries of the mapping whose key left the input.
Stale(list, m) == SelectSeq(m, LAMBDA x : x.key \notin Range(list))

\* The entry of key k in a mapping.
Entry(m, k) == CHOOSE x \in Range(m) : x.key = k

\* map_keyed, the disposal set: the child scope of a key that left the input
\* is disposed; the loop is over when none is left.
OpDisposeRemoved ==
    /\ AtOp("dispose_removed")
    /\ LET gone == SelectSeq(Stale(Lists(Top.acc), mapped),
                             LAMBDA x : scope[x.scope] = "Live")
       IN IF gone = <<>>
          THEN /\ stack' = Advanced
               /\ UNCHANGED <<child_scopes, frees>>
          ELSE ChildDisposer(gone[1].scope, stack)
    /\ UNCHANGED <<program, value, subscribers, insertion, body, parent, effect,
                   dependencies, scope_effects, EFFECTS, trace, tracked, last_call,
                   owner, disposer, scope, scope_parent, held, goods, keyed, unseen>>

\* map_keyed, the new keys: a child scope is allocated and the template is
\* called in it; the loop is over when every key of the input is mapped.
OpMapNew ==
    /\ AtOp("map_new")
    /\ LET new == NewKeys(Lists(Top.acc), mapped)
       IN IF new = <<>>
          THEN /\ stack' = Advanced
               /\ UNCHANGED <<scope, scope_parent, child_scopes, templated>>
          ELSE /\ create_child_scope(Top.ctx, Instr.body, "mapped", Top.eff, Top.shield,
                                     [stack EXCEPT ![Len(stack)].idx = new[1]])
               /\ templated' = Append(templated, new[1])
    /\ UNCHANGED <<program, value, subscribers, insertion, body, parent, effect,
                   dependencies, scope_effects, EFFECTS, trace, tracked, last_call,
                   owner, disposer, held, frees, goods, mapped, output, unseen>>

\* map_keyed, the output: the mapped values of the keys of the input, in the
\* order of the input; the value the template made in a child scope is named
\* by that scope.
OpSetOutput ==
    /\ AtOp("set_output")
    /\ LET list == Lists(Top.acc)
       IN /\ mapped' = [i \in 1..Len(list) |-> Entry(mapped, list[i])]
          /\ output' = [i \in 1..Len(list) |-> Entry(mapped, list[i]).scope]
    /\ stack' = Advanced
    /\ UNCHANGED <<program, value, subscribers, insertion, body, parent, effect,
                   dependencies, scope_effects, EFFECTS, trace, tracked, last_call,
                   owner, disposer, tree, goods, templated, unseen>>

\* The top level calls the disposer of child scope c.
MainCallDisposer(c) ==
    /\ stack = <<>>
    /\ scope[Root] = "Live"
    /\ c \in held
    /\ held' = held \ {c}
    /\ ChildDisposer(c, <<>>)
    /\ trace' = <<>>
    /\ last_call' = [NoCall EXCEPT !.op = "disposer", !.eff = c, !.ids = NextId - 1]
    /\ UNCHANGED <<program, value, subscribers, insertion, body, parent, effect,
                   dependencies, scope_effects, EFFECTS, tracked, owner, disposer,
                   scope, scope_parent, goods>>
    /\ UNCHANGED <<keyed, unseen>>

\* The closure of create_scope has returned and the top level calls the
\* disposer of the root scope: the Box is taken back and disposed.
MainDisposeRoot ==
    /\ stack = <<>>
    /\ program \in ScopePrograms
    /\ scope[Root] = "Live"
    /\ frees' = [frees EXCEPT ![Root] = @ + 1]
    /\ stack' = <<DisposeFrame(Root, 1)>>
    /\ trace' = <<>>
    /\ last_call' = [NoCall EXCEPT !.op = "disposer", !.eff = Root, !.ids = NextId - 1,
                                   !.before = arena[Root],
                                   !.values = IF Compares(program) THEN value ELSE <<>>]
    /\ UNCHANGED <<program, value, subscribers, insertion, body, parent, effect,
                   dependencies, scope_effects, EFFECTS, tracked, owner, disposer,
                   scope, scope_parent, child_scopes, held, goods>>
    /\ UNCHANGED <<keyed, unseen>>

\* A disposal that begins with the arena.
DisposeBeginArenaFirst ==
    /\ Disposing
    /\ Top.pc = 0
    /\ stack' = [stack EXCEPT ![Len(stack)].pc = 1,
                              ![Len(stack)].snap = child_scopes[Top.ctx],
                              ![Len(stack)].idx = 1]
    /\ child_scopes' = [child_scopes EXCEPT ![Top.ctx] = <<>>]
    /\ destroyed' = destroyed \o Destroyed(Top.ctx, "arena", arena_dispose(arena[Top.ctx]))
    /\ arena' = [arena EXCEPT ![Top.ctx] = <<>>]
    /\ UNCHANGED <<program, value, subscribers, insertion, body, parent, effect,
                   dependencies, scope_effects, EFFECTS, trace, tracked, last_call,
                   owner, disposer, scope, scope_parent, held, frees, cleanups,
                   registered, ran, contexts, returned>>
    /\ UNCHANGED <<keyed, unseen>>

\* Scope::dispose, `self.child_scopes.take()`.
DisposeBegin ==
    /\ Disposing
    /\ Top.pc = 0
    /\ stack' = [stack EXCEPT ![Len(stack)].pc = 1,
                              ![Len(stack)].snap = child_scopes[Top.ctx],
                              ![Len(stack)].idx = 1]
    /\ child_scopes' = [child_scopes EXCEPT ![Top.ctx] = <<>>]
    /\ UNCHANGED <<program, value, subscribers, insertion, body, parent, effect,
                   dependencies, scope_effects, EFFECTS, trace, tracked, last_call,
                   owner, disposer, scope, scope_parent, held, frees, goods>>
    /\ UNCHANGED <<keyed, unseen>>

\* Scope::dispose, one iteration of the loop over the children: the Box of the
\* child is taken back and the child disposed.
DisposeChild ==
    /\ Disposing
    /\ Top.pc = 1
    /\ Top.idx <= Len(Top.snap)
    /\ frees' = [frees EXCEPT ![Top.snap[Top.idx]] = @ + 1]
    /\ stack' = Append([stack EXCEPT ![Len(stack)].idx = @ + 1],
                       DisposeFrame(Top.snap[Top.idx], 1))
    /\ UNCHANGED <<program, value, subscribers, insertion, body, parent, effect,
                   dependencies, scope_effects, EFFECTS, trace, tracked, last_call,
                   owner, disposer, scope, scope_parent, child_scopes, held, goods>>
    /\ UNCHANGED <<keyed, unseen>>

\* Scope::dispose, after the children: the effects are dropped, untrack takes
\* EFFECTS and its closure takes the cleanups.
DisposeEffects ==
    /\ Disposing
    /\ Top.pc = 1
    /\ Top.idx > Len(Top.snap)
    /\ effect' = effects_drop(effect, scope_effects[Top.ctx])
    /\ scope_effects' = [scope_effects EXCEPT ![Top.ctx] = <<>>]
    /\ EFFECTS' = dispose_untrack(EFFECTS)
    /\ cleanups' = [cleanups EXCEPT ![Top.ctx] = <<>>]
    /\ stack' = [stack EXCEPT ![Len(stack)].pc = 3,
                              ![Len(stack)].saved = EFFECTS,
                              ![Len(stack)].snap = cleanups[Top.ctx],
                              ![Len(stack)].idx = 1]
    /\ UNCHANGED <<program, value, subscribers, insertion, body, parent,
                   dependencies, trace, tracked, last_call, owner, disposer, tree,
                   registered, ran, contexts, arena, destroyed, returned>>
    /\ UNCHANGED <<keyed, unseen>>

\* Scope::dispose, one iteration of the loop over the cleanups.
DisposeCleanup ==
    /\ Disposing
    /\ Top.pc = 3
    /\ Top.idx <= Len(Top.snap)
    /\ ran' = [ran EXCEPT ![Top.ctx] = Append(@, Top.snap[Top.idx].id)]
    /\ stack' = Append([stack EXCEPT ![Len(stack)].idx = @ + 1],
                       CallFrame(Top.snap[Top.idx].fn, "cleanup", Top.ctx, 0, FALSE))
    /\ UNCHANGED <<program, value, subscribers, insertion, body, parent, effect,
                   dependencies, scope_effects, EFFECTS, trace, tracked, last_call,
                   owner, disposer, tree, cleanups, registered, contexts, arena,
                   destroyed, returned>>
    /\ UNCHANGED <<keyed, unseen>>

\* `self.contexts.take().values()`: the pointers the map holds.
context_values(m) ==
    LET ts == SelectSeq(<<"i32", "bool">>, LAMBDA t : m[t] # NoVal)
    IN [i \in 1..Len(ts) |-> m[ts[i]]]


\* Scope::dispose, after the cleanups: untrack puts EFFECTS back and the
\* context values are destroyed.
DisposeContexts ==
    /\ Disposing
    /\ Top.pc = 3
    /\ Top.idx > Len(Top.snap)
    /\ EFFECTS' = Top.saved
    /\ contexts' = [contexts EXCEPT ![Top.ctx] = NoContexts]
    /\ destroyed' = destroyed \o Destroyed(Top.ctx, "contexts", context_values(contexts[Top.ctx]))
    /\ stack' = [stack EXCEPT ![Len(stack)].pc = 5]
    /\ UNCHANGED <<program, value, subscribers, insertion, body, parent, effect,
                   dependencies, scope_effects, trace, tracked, last_call, owner,
                   disposer, tree, cleanups, registered, ran, arena, returned>>
    /\ UNCHANGED <<keyed, unseen>>

\* Scope::dispose, `self.arena.dispose()`: the entries are destroyed and the
\* Vec is emptied.
DisposeArena ==
    /\ Disposing
    /\ Top.pc = 5
    /\ destroyed' = destroyed \o Destroyed(Top.ctx, "arena", arena_dispose(arena[Top.ctx]))
    /\ arena' = [arena EXCEPT ![Top.ctx] = <<>>]
    /\ stack' = [stack EXCEPT ![Len(stack)].pc = 6]
    /\ UNCHANGED <<program, value, subscribers, insertion, body, parent, effect,
                   dependencies, scope_effects, EFFECTS, trace, tracked, last_call,
                   owner, disposer, tree, cleanups, registered, ran, contexts,
                   returned>>
    /\ UNCHANGED <<keyed, unseen>>

\* Scope::dispose returned.  After the explicit call the Box is dropped, and
\* Drop for Scope calls dispose again; after that one the memory is freed, and
\* a panic that was unwinding through the scope goes on.
DisposeReturn ==
    /\ Disposing
    /\ Top.pc = 6
    /\ IF Top.pass = 1
       THEN /\ stack' = [stack EXCEPT ![Len(stack)] = DisposeFrame(Top.ctx, 2)]
            /\ UNCHANGED scope
       ELSE /\ stack' = IF Top.ret = "unwind" THEN Append(Front(stack), PanicFrame)
                        ELSE Front(stack)
            /\ scope' = [scope EXCEPT ![Top.ctx] = "Freed"]
    /\ UNCHANGED <<program, value, subscribers, insertion, body, parent, effect,
                   dependencies, scope_effects, EFFECTS, trace, tracked, last_call,
                   owner, disposer, scope_parent, child_scopes, held, frees, goods>>
    /\ UNCHANGED <<keyed, unseen>>

\* ScopeArena::alloc through create_ref, called from the top level.
MainCreateRef ==
    /\ stack = <<>>
    /\ scope[Root] = "Live"
    /\ program = "arena"
    /\ Len(arena[Root]) - Cardinality(ProgramSignals(program)) < MaxRefs
    /\ arena' = [arena EXCEPT ![Root] =
                    Append(@, RefNames[Len(@) - Cardinality(ProgramSignals(program)) + 1])]
    /\ last_call' = [NoCall EXCEPT !.op = "create_ref"]
    /\ UNCHANGED <<program, value, subscribers, insertion, body, parent, effect,
                   dependencies, scope_effects, EFFECTS, stack, trace, tracked,
                   owner, disposer, tree, cleanups, registered, ran, contexts,
                   destroyed, returned>>
    /\ UNCHANGED <<keyed, unseen>>

\* try_use_context: the scope the loop `while let Some(current) = this` looks
\* at after scope `this`; the loop body never assigns `this`.
lookup_next(this) == this

\* The nearest scope from sc to the root that provides type t (0: none).
RECURSIVE Provider(_, _)
Provider(sc, t) ==
    IF sc = 0 THEN 0
    ELSE IF contexts[sc][t] # NoVal THEN sc
    ELSE Provider(scope_parent[sc], t)

\* An insert that reports a value of the type anywhere from the scope to the
\* root.
inserted_on_path(sc, t) == Provider(sc, t) # 0

\* `self.contexts.borrow_mut().insert(type_id, ptr).is_some()`: the map of
\* the scope had a value for the type.
inserted_is_some(sc, t) == contexts[sc][t] # NoVal

\* The value the program gives a provide_context on scope sc: one that
\* identifies the scope, and another one when the scope has provided the type.
Second(sc) == sc + MaxScopes

\* Scope::provide_context(v) on scope sc, for a value of type t: the value is
\* inserted, and the call panics if the type was there.  The program provides
\* a type at most twice on a scope.
MainProvideContext(sc, t) ==
    /\ stack = <<>>
    /\ sc \in TopContexts(program)
    /\ scope[Root] = "Live"
    /\ scope[sc] = "Live"
    /\ contexts[sc][t] \in {NoVal, sc}
    /\ contexts' = [contexts EXCEPT ![sc][t] = IF @ = NoVal THEN sc ELSE Second(sc)]
    /\ stack' = IF inserted_is_some(sc, t) THEN <<PanicFrame>> ELSE <<>>
    /\ last_call' = [NoCall EXCEPT !.op = "provide_context", !.sig = t, !.eff = sc]
    /\ UNCHANGED <<program, value, subscribers, insertion, body, parent, effect,
                   dependencies, scope_effects, EFFECTS, trace, tracked, owner,
                   disposer, tree, cleanups, registered, ran, arena, destroyed,
                   returned>>
    /\ UNCHANGED <<keyed, unseen>>

\* The program catches the panic of a provide_context and goes on: the
\* context program does, for an i32 provided on the root scope.
MainCatchUnwind ==
    /\ stack = <<PanicFrame>>
    /\ program = "context"
    /\ last_call.op = "provide_context"
    /\ last_call.sig = "i32"
    /\ last_call.eff = Root
    /\ stack' = <<>>
    /\ last_call' = [last_call EXCEPT !.op = "catch_unwind"]
    /\ UNCHANGED <<program, value, subscribers, insertion, body, parent, effect,
                   dependencies, scope_effects, EFFECTS, trace, tracked, owner,
                   disposer, tree, goods>>
    /\ UNCHANGED <<keyed, unseen>>

\* Scope::use_context (f = "use_context") or Scope::try_use_context called on
\* scope sc for type t, up to the loop.
MainUseContext(sc, t, f) ==
    /\ stack = <<>>
    /\ program = "context"
    /\ scope[Root] = "Live"
    /\ scope[sc] = "Live"
    /\ stack' = <<[NoFrame EXCEPT !.kind = "lookup", !.fn = f, !.ctx = sc, !.sig = t,
                                  !.this = sc, !.idx = 0]>>
    /\ returned' = NoVal
    /\ last_call' = [NoCall EXCEPT !.op = f, !.sig = t, !.eff = sc]
    /\ UNCHANGED <<program, value, subscribers, insertion, body, parent, effect,
                   dependencies, scope_effects, EFFECTS, trace, tracked, owner,
                   disposer, tree, cleanups, registered, ran, contexts, arena,
                   destroyed>>
    /\ UNCHANGED <<keyed, unseen>>

\* One iteration of the loop of try_use_context: return the value if the
\* current scope has one for the type, else go round again; the loop over,
\* try_use_context returns None and use_context panics on it.
LookupStep ==
    /\ stack # <<>>
    /\ Top.kind = "lookup"
    /\ IF Top.this = 0
       THEN /\ stack' = IF Top.fn = "use_context" THEN <<PanicFrame>> ELSE <<>>
            /\ returned' = NoVal
       ELSE IF contexts[Top.this][Top.sig] # NoVal
       THEN /\ stack' = <<>>
            /\ returned' = contexts[Top.this][Top.sig]
       ELSE /\ stack' = [stack EXCEPT ![Len(stack)].this = lookup_next(@),
                                      ![Len(stack)].idx = 1]
            /\ returned' = returned
    /\ UNCHANGED <<program, value, subscribers, insertion, body, parent, effect,
                   dependencies, scope_effects, EFFECTS, trace, tracked, last_call,
                   owner, disposer, tree, cleanups, registered, ran, contexts, arena,
                   destroyed>>
    /\ UNCHANGED <<keyed, unseen>>

Step ==
    \/ OpGet \/ OpSet \/ OpCreateEffect \/ OpJz \/ OpJmp \/ WalkStep \/ SetReturn \/ RunEnd
    \/ OpIfCell \/ OpEqOld \/ OpCreateSignal \/ OpPanic \/ UnwindStep
    \/ OpGetUntracked \/ OpUntrack \/ OpOnCleanup \/ OpCreateChild \/ CallReturn
    \/ OpTakeDisposer \/ OpCallDisposer
    \/ OpDisposeRemoved \/ OpMapNew \/ OpSetOutput \/ UseAfterFree
    \/ DisposeBegin \/ DisposeChild \/ DisposeEffects \/ DisposeCleanup
    \/ DisposeContexts \/ DisposeArena \/ DisposeReturn
    \/ LookupStep

Next ==
    \/ \E b \in {"double", "loop", "ping", "pong", "twice", "both", "cond", "outer", "outer2",
                 "peek", "shield", "inner", "scoped_tick", "memo", "selector", "watch",
                 "bomb", "shield_bomb", "shield2", "quiet", "scoped_toll",
                 "map_keyed", "gate", "shut", "after", "relay"} :
          MainCreateEffect(b)
    \/ \E s \in Signals, v \in Vals : MainSet(s, v)
    \/ \E s \in Signals, v \in Vals : MainSetRc(s, v)
    \/ \E s \in Signals, v \in Vals : MainSetSilent(s, v)
    \/ \E s \in Signals : MainTake(s)
    \/ \E s \in Signals : MainTakeSilent(s)
    \/ \E cb \in EffectIds : EmitterSubscribe(cb)
    \/ \E cb \in EffectIds : EmitterUnsubscribe(cb)
    \/ OpGet
    \/ OpSet
    \/ OpCreateEffect
    \/ OpJz
    \/ OpJmp
    \/ WalkStep
    \/ SetReturn
    \/ RunEnd
    \/ OpIfCell
    \/ OpEqOld
    \/ OpCreateSignal
    \/ OpPanic
    \/ UnwindStep
    \/ OpGetUntracked
    \/ OpUntrack
    \/ OpOnCleanup
    \/ \E b \in {"bump", "again"} : MainOnCleanup(b)
    \/ OpCreateChild
    \/ \E b \in {"kid", "pyre", "leaf", "morgue", "home", "nest", "den"} : MainCreateChild(b)
    \/ CallReturn
    \/ UseAfterFree
    \/ OpTakeDisposer
    \/ OpCallDisposer
    \/ OpDisposeRemoved
    \/ OpMapNew
    \/ OpSetOutput
    \/ \E c \in ScopeIds : MainCallDisposer(c)
    \/ MainDisposeRoot
    \/ DisposeBegin
    \/ DisposeChild
    \/ DisposeEffects
    \/ DisposeCleanup
    \/ DisposeContexts
    \/ DisposeArena
    \/ DisposeReturn
    \/ MainCreateRef
    \/ \E sc \in ScopeIds, t \in Types : MainProvideContext(sc, t)
    \/ \E sc \in ScopeIds, t \in Types, f \in {"use_context", "try_use_context"} :
          MainUseContext(sc, t, f)
    \/ MainCatchUnwind
    \/ LookupStep

Spec == Init /\ [][Next]_vars

\* The programs whose callbacks write signals and create no effects, on their
\* own: the runtime is single threaded and synchronous, so a call in progress
\* keeps executing (weak fairness of Step).
WriteInit == Init /\ program \in {"effect", "loop"}

WriteNext ==
    \/ \E b \in {"double", "loop", "ping", "pong"} : MainCreateEffect(b)
    \/ \E s \in Signals, v \in Vals : MainSet(s, v)
    \/ OpGet
    \/ OpSet
    \/ WalkStep
    \/ SetReturn
    \/ RunEnd

WriteSpec == WriteInit /\ [][WriteNext]_vars /\ WF_vars(Step)

\* The program that provides and looks up context values, on its own, without
\* disposal; a call in progress keeps executing (weak fairness of Step).
ContextInit == Init /\ program = "context"

ContextNext ==
    \/ \E b \in {"nest"} : MainCreateChild(b)
    \/ OpCreateChild
    \/ CallReturn
    \/ \E sc \in ScopeIds, t \in Types : MainProvideContext(sc, t)
    \/ \E sc \in ScopeIds, t \in Types, f \in {"use_context", "try_use_context"} :
          MainUseContext(sc, t, f)
    \/ LookupStep

ContextSpec == ContextInit /\ [][ContextNext]_vars /\ WF_vars(Step)

TypeOK ==
    /\ program \in Programs
    /\ value \in [Signals -> Vals]
    /\ \A s \in Signals : Range(subscribers[s]) \subseteq EffectIds
    /\ \A e \in EffectIds : dependencies[e] \subseteq Signals
    /\ Range(EFFECTS) \subseteq EffectIds
    /\ Len(trace) < MaxTrace
    /\ effect \in [EffectIds -> {"Absent", "Some", "None", "Dropped"}]
    /\ scope \in [ScopeIds -> {"Absent", "Live", "Freed"}]
    /\ owner \in [EffectIds -> 0..MaxScopes]
    /\ disposer \in [EffectIds -> 0..MaxScopes]
    /\ scope_parent \in [ScopeIds -> 0..MaxScopes]
    /\ \A sc \in ScopeIds :
          /\ Range(child_scopes[sc]) \subseteq ScopeIds
          /\ Range(scope_effects[sc]) \subseteq EffectIds
          /\ contexts[sc] \in [Types -> {NoVal, sc, Second(sc)}]
    /\ held \subseteq ScopeIds
    \* no code has work left on a scope whose memory was freed
    /\ \A i \in DOMAIN stack :
          (/\ stack[i].kind \in {"run", "call", "dispose", "lookup"}
           /\ stack[i].kind \in {"run", "call"} => stack[i].pc <= Len(Code(BodyOf(stack[i]))))
          => scope[stack[i].ctx] = "Live"

Count(q, x) == Cardinality({i \in DOMAIN q : q[i] = x})
Reverse(q) == [i \in 1..Len(q) |-> q[Len(q) + 1 - i]]
Idle == stack = <<>>

\* ------------------------------------------------------------------ claims

\* C1: propagation is synchronous.  With effects whose callback writes
\* 2 * a into b and nothing else writing a or b, b equals 2 * a (modulo
\* Modulus) as soon as create_effect has returned and as soon as a.set(v)
\* has returned.
SynchronousPropagation ==
    (/\ program = "effect"
     /\ Idle
     /\ \E e \in EffectIds : body[e] = "double"
     /\ \/ last_call.op = "create_effect"
        \/ last_call.op = "set" /\ last_call.sig = "a")
    => value["b"] = (2 * value["a"]) % Modulus

\* a.set(1) has returned with a doubling effect registered: b is 2.
SynchronousPropagationWitness ==
    /\ program = "effect"
    /\ Idle
    /\ last_call.op = "set" /\ last_call.sig = "a"
    /\ body[1] = "double"
    /\ trace = <<1>>
    /\ value["a"] = 1 /\ value["b"] = 2

\* C2: create_effect calls the user callback exactly once before it returns
\* (the step that stores the effect in the scope), and the effect is then
\* subscribed to every emitter the callback read.
CreateEffectRunsOnce ==
    [][\A e \in EffectIds :
          (e \notin Range(scope_effects[Root]) /\ e \in Range(scope_effects'[Root]))
          => /\ Count(trace', e) = 1
             /\ \A s \in tracked'[e] : e \in Range(subscribers'[s])]_vars

\* A top-level create_effect has returned whose callback created a second
\* effect: both ran once and both are subscribed to the signal they read.
CreateEffectRunsOnceWitness ==
    /\ program = "nested"
    /\ Idle
    /\ last_call.op = "create_effect"
    /\ trace = <<1, 2>>
    /\ scope_effects[Root] = <<2, 1>>
    /\ tracked[1] = {"a"} /\ tracked[2] = {"a"}
    /\ Range(subscribers["a"]) = {1, 2}

\* C3: dependency renewal.  An effect that is not running has as dependency
\* set exactly the emitters its callback tracked in its latest run, and it is
\* a subscriber of exactly those emitters.
DependencyRenewal ==
    \A e \in EffectIds :
        effect[e] = "Some"
        => /\ dependencies[e] = tracked[e]
           /\ \A s \in Signals : (e \in Range(subscribers[s])) <=> (s \in dependencies[e])

\* The conditional effect has re-run because c was set to 0: it now depends
\* on c and b, and no longer on a.
DependencyRenewalWitness ==
    /\ program = "cond"
    /\ Idle
    /\ last_call.op = "set" /\ last_call.sig = "c"
    /\ trace = <<1>>
    /\ value["c"] = 0
    /\ effect[1] = "Some"
    /\ dependencies[1] = {"c", "b"}
    /\ subscribers["a"] = <<>>

\* C4: conditional dependency.  For an effect that reads a when c is nonzero
\* and b otherwise, a top-level write to the signal of the branch not taken
\* never re-runs it, and a top-level write to the signal of the branch taken
\* re-runs it once; c decides which is which.
ConditionalDependency ==
    (program = "cond" /\ last_call.op = "set")
    => \A e \in EffectIds :
          (body[e] = "cond" /\ e <= last_call.ids)
          => /\ last_call.sig = (IF value["c"] # 0 THEN "b" ELSE "a") => Count(trace, e) = 0
             /\ (Idle /\ last_call.sig = (IF value["c"] # 0 THEN "a" ELSE "b"))
                    => Count(trace, e) = 1

\* c is 0, so the effect read b in its latest run; a was written and the
\* write returned without running the effect.
ConditionalDependencyWitness ==
    /\ program = "cond"
    /\ Idle
    /\ last_call.op = "set" /\ last_call.sig = "a"
    /\ value["c"] = 0
    /\ body[1] = "cond"
    /\ dependencies[1] = {"c", "b"}
    /\ trace = <<>>

\* C5: reentrancy safety.  No effect has two callback invocations in progress
\* at once: the running callbacks on the call stack, and the entries of
\* EFFECTS, are pairwise distinct effects.
ReentrancySafety ==
    /\ \A i, j \in DOMAIN stack :
          (i < j /\ stack[i].kind = "run" /\ stack[j].kind = "run")
          => stack[i].eff # stack[j].eff
    /\ \A i, j \in DOMAIN EFFECTS : i < j => EFFECTS[i] # EFFECTS[j]

\* An effect that reads and writes a was re-run by a write to a, has written
\* a itself, and the walk of that write is over without having called it.
ReentrancySafetyWitness ==
    /\ program = "loop"
    /\ last_call.op = "set" /\ last_call.sig = "a"
    /\ Len(stack) = 3
    /\ stack[1].kind = "walk" /\ stack[1].snap = <<1>>
    /\ stack[2].kind = "run" /\ stack[2].eff = 1 /\ stack[2].pc = 3
    /\ body[1] = "loop"
    /\ stack[3].kind = "walk" /\ stack[3].sig = "a" /\ stack[3].idx = 0
    /\ trace = <<1>>

\* C6: trigger termination.  With callbacks that create no effects, every
\* call that is in progress returns to the top level, also when effects read
\* and write the same signal or feed each other in a cycle.
SetTerminates == (stack # <<>>) ~> (stack = <<>>)

\* a.set(v) has returned after running the cycle a -> ping -> b -> pong -> a.
SetTerminatesWitness ==
    /\ program = "loop"
    /\ Idle
    /\ last_call.op = "set" /\ last_call.sig = "a"
    /\ body[1] = "ping" /\ body[2] = "pong"
    /\ trace = <<1, 2>>

\* C7: reverse-order notification.  A top-level write to a signal whose
\* subscribers only read invokes them in the reverse of the order in which
\* their current subscriptions were inserted.
ReverseOrderNotification ==
    (program = "order" /\ Idle /\ last_call.op = "set")
    => trace = Reverse(last_call.order)

LatestChild(o, n) == CHOOSE c \in 1..n : parent[c] = o /\ \A d \in 1..n : parent[d] = o => d <= c

\* C8: outer before inner.  In a write to a, the signal read by an outer
\* effect and by the inner effects it creates, the inner effect created by the
\* outer effect's latest run is only invoked after the outer effect was.
OuterBeforeInner ==
    (program \in {"nested", "nested2"} /\ last_call.op = "set" /\ last_call.sig = "a")
    => \A i \in DOMAIN trace :
          (/\ parent[trace[i]] # 0
           /\ trace[i] <= last_call.ids
           /\ trace[i] = LatestChild(parent[trace[i]], last_call.ids))
          => \E j \in 1..(i - 1) : trace[j] = parent[trace[i]]

\* C9: nested effect runs once.  With one outer effect that reads a and
\* creates an inner effect that reads a, a.set(v) runs the outer callback once
\* and the inner callback once before it returns.
NestedEffectRunsOnce ==
    (/\ program = "nested"
     /\ Idle
     /\ last_call.op = "set" /\ last_call.sig = "a"
     /\ last_call.ids = 2
     /\ body[1] = "outer")
    => /\ Cardinality({i \in DOMAIN trace : body[trace[i]] = "outer"}) = 1
       /\ Cardinality({i \in DOMAIN trace : body[trace[i]] = "inner"}) = 1

\* C10: subscriber idempotence.  No subscriber map holds a callback twice;
\* subscribing a callback that is already there leaves the map as it was; and
\* an effect that reads a twice in a run is invoked once by a write to a.
SubscriberIdempotence ==
    /\ \A s \in Signals : \A i, j \in DOMAIN subscribers[s] :
          i < j => subscribers[s][i] # subscribers[s][j]
    /\ (/\ program = "emitter"
        /\ last_call.op = "subscribe"
        /\ last_call.eff \in Range(last_call.before))
       => subscribers["a"] = last_call.before
    /\ (program = "order" /\ Idle /\ last_call.op = "set" /\ last_call.sig = "a")
       => \A e \in 1..last_call.ids : Count(trace, e) = 1

\* The emitter held callbacks 1 and 2, in this order, and callback 1 was
\* subscribed again.
SubscriberIdempotenceWitness ==
    /\ program = "emitter"
    /\ last_call.op = "subscribe" /\ last_call.eff = 1
    /\ last_call.before = <<1, 2>>
    /\ subscribers["a"] = <<1, 2>>

\* C11: untrack isolation.  An effect that reads a only with get_untracked, or
\* only inside untrack, does not depend on a once its run is over; a
\* top-level write to a then runs no callback and leaves b, the memo such
\* effects compute from a, at its old value.
UntrackIsolation ==
    program = "untrack"
    => /\ \A e \in EffectIds : effect[e] = "Some" => "a" \notin dependencies[e]
       /\ (last_call.op = "set" /\ last_call.sig = "a")
          => /\ trace = <<>>
             /\ value["b"] = last_call.values["b"]

\* Both kinds of effect exist, a was 1 and b was 2 = 2 * 1, and a.set(2) has
\* returned: b is still 2.
UntrackIsolationWitness ==
    /\ program = "untrack"
    /\ Idle
    /\ body[1] = "peek" /\ body[2] = "shield"
    /\ last_call.op = "set" /\ last_call.sig = "a"
    /\ last_call.values["a"] = 1 /\ last_call.values["b"] = 2
    /\ value["a"] = 2 /\ value["b"] = 2

\* The scopes from sc up to the root.
RECURSIVE Ancestry(_)
Ancestry(sc) == IF sc = 0 THEN {} ELSE {sc} \cup Ancestry(scope_parent[sc])

\* C12: cancellation.  A step that invokes the callback of an effect is never
\* taken once the scope that owns the effect, or a scope above that one, has
\* been disposed and freed, whatever signal is written.
Cancellation ==
    [][\A e \in EffectIds :
          (/\ Len(stack') = Len(stack) + 1
           /\ stack'[Len(stack')].kind = "run"
           /\ stack'[Len(stack')].eff = e)
          => \A sc \in Ancestry(owner[e]) : scope[sc] # "Freed"]_vars

\* A child scope was disposed whose effect was a subscriber of a, a signal of
\* the root scope; then a was written and the write returned without invoking
\* that effect.
CancellationWitness ==
    /\ program = "cancel"
    /\ Idle
    /\ last_call.op = "set" /\ last_call.sig = "a"
    /\ \E e \in EffectIds :
          /\ body[e] = "inner"
          /\ owner[e] # Root /\ scope[owner[e]] = "Freed"
          /\ e \in Range(last_call.before)
          /\ e \notin Range(trace)

\* The scopes below sc.
Descendants(sc) == {d \in ScopeIds : scope[d] # "Absent" /\ sc \in Ancestry(scope_parent[d])}
\* what was destroyed of scope sc
DestroyedOf(sc) == SelectSeq(destroyed, LAMBDA r : r.scope = sc)

ArenaDestroyed(sc) ==
    LET recs == SelectSeq(destroyed, LAMBDA r : r.scope = sc /\ r.kind = "arena")
    IN [i \in 1..Len(recs) |-> recs[i].item]

\* C14: arena destruction order.  Once the root scope is disposed, the items
\* that were in its arena have been destroyed in the reverse of the order of
\* their allocation, and the arena is empty.
ArenaReverseOrder ==
    (/\ scope[Root] = "Freed"
     /\ last_call.op = "disposer" /\ last_call.eff = Root)
    => /\ ArenaDestroyed(Root) = Reverse(last_call.before)
       /\ arena[Root] = <<>>

DisposeIdempotent ==
    /\ \A i \in DOMAIN stack :
          (stack[i].kind = "dispose" /\ stack[i].pass = 2) => i = Len(stack)
    /\ \A sc \in ScopeIds :
          scope[sc] = "Freed" => ran[sc] = [i \in 1..registered[sc] |-> i]

\* C17: cleanups are untracked.  The cleanup of the child scope of a scoped
\* effect reads c and b, and runs when the effect, running, disposes the
\* child scope of its previous run: no effect ever depends on c or b, no walk
\* of c or b finds a subscriber that is alive, and a write to c or b invokes
\* no effect.
CleanupsUntracked ==
    program = "scoped"
    => /\ \A e \in EffectIds : dependencies[e] \cap {"b", "c"} = {}
       /\ \A e \in EffectIds : \A s \in {"b", "c"} :
             e \in Range(subscribers[s]) => ~upgrade(e)
       /\ \A i \in DOMAIN stack :
             stack[i].kind = "run" => \A s \in {"b", "c"} : s \notin tracked[stack[i].eff]
       /\ (last_call.op = "set" /\ last_call.sig \in {"b", "c"}) => trace = <<>>

\* The scoped effect re-ran and disposed, from inside its run, the child scope
\* of its first run, whose cleanup read c; c was then written, the call is
\* over, and the effect, which is alive, was not invoked.
CleanupsUntrackedWitness ==
    /\ program = "scoped"
    /\ Idle
    /\ last_call.op = "set" /\ last_call.sig = "c"
    /\ last_call.values["c"] # value["c"]
    /\ scope[Root] = "Live"
    /\ scope[2] = "Freed" /\ ran[2] = <<1>>
    /\ effect[1] = "Some" /\ body[1] = "scoped_tick"
    /\ "a" \in dependencies[1]
    /\ trace = <<>>

\* C18: scoped effect lifecycle.  While the user callback of a scoped effect
\* runs, the effect holds no disposer and the child scopes that are alive are
\* the one of this run and the one each other scoped effect holds, so the one
\* of the previous run is disposed; a child scope that is freed was disposed
\* once and its cleanup ran once; when a write to a has returned, the
\* cleanups that count in b ran once per re-run; once the root scope is
\* freed no child scope is alive.
ScopedEffectLifecycle ==
    program = "scoped"
    => /\ \A i \in DOMAIN stack :
             (stack[i].kind = "call" /\ stack[i].fn = "tick")
             => /\ disposer[stack[i].eff] = 0
                /\ {sc \in ScopeIds \ {Root} : scope[sc] = "Live"}
                   = {stack[i].ctx} \cup ({disposer[e] : e \in EffectIds} \ {0})
       /\ \A sc \in ScopeIds \ {Root} :
             scope[sc] = "Freed" => frees[sc] = 1 /\ registered[sc] = 1 /\ ran[sc] = <<1>>
       /\ \A sc \in ScopeIds \ {Root} :
             scope[sc] = "Live" => ran[sc] = <<>> \/ \E i \in DOMAIN stack :
                                                      stack[i].kind = "dispose" /\ stack[i].ctx = sc
       /\ (Idle /\ last_call.op = "set" /\ last_call.sig = "a")
          => value["b"] = (last_call.values["b"] + Len(trace)) % Modulus
       /\ scope[Root] = "Freed"
          => \A sc \in ScopeIds : scope[sc] \in {"Absent", "Freed"}

\* A write to a re-ran the scoped effect: the child scope of its first run is
\* freed and its cleanup ran, counting one in b; the effect holds the
\* disposer of the child scope of the re-run, whose cleanup has not run.
ScopedEffectLifecycleWitness ==
    /\ program = "scoped"
    /\ Idle
    /\ last_call.op = "set" /\ last_call.sig = "a"
    /\ trace = <<1>>
    /\ body[1] = "scoped_tick"
    /\ scope[2] = "Freed" /\ ran[2] = <<1>> /\ frees[2] = 1
    /\ scope[3] = "Live" /\ ran[3] = <<>> /\ registered[3] = 1
    /\ disposer[1] = 3
    /\ value["b"] = (last_call.values["b"] + 1) % Modulus

\* A lookup is in progress.
LookingUp == stack # <<>> /\ Top.kind = "lookup"

\* C19: context lookup walks ancestors.  A step of a lookup for type T that
\* looks at a scope providing T returns the value of the nearest provider on
\* the path from the scope of the call to the root; one that looks at a scope
\* that does not provide T and has a parent goes on with that parent.
ContextLookupWalksAncestors ==
    [][LookingUp
       => IF contexts[Top.this][Top.sig] # NoVal
          THEN /\ stack' = <<>>
               /\ Provider(Top.ctx, Top.sig) # 0
               /\ returned' = contexts[Provider(Top.ctx, Top.sig)][Top.sig]
          ELSE scope_parent[Top.this] # 0
               => /\ stack' # <<>>
                  /\ stack'[Len(stack')].kind = "lookup"
                  /\ stack'[Len(stack')].this = scope_parent[Top.this]]_vars

\* C20: context miss.  A lookup for a type that no scope on the path from the
\* scope of the call to the root provides comes to an end: try_use_context
\* returns None, use_context panics.
ContextMissReturnsAbsent ==
    \A f \in {"use_context", "try_use_context"} :
       (LookingUp /\ Top.fn = f /\ Provider(Top.ctx, Top.sig) = 0)
       ~> IF f = "try_use_context"
          THEN stack = <<>> /\ returned = NoVal /\ last_call.op = f
          ELSE stack = <<PanicFrame>> /\ last_call.op = f

\* C21: duplicate context.  A call of provide_context for type T on a scope
\* panics if and only if the map of that scope held a value of type T when the
\* call began, whatever the other scopes provide; the call leaves a value of
\* type T in the map of the scope and changes no other entry of any map.
DuplicateContext ==
    [][\A sc \in ScopeIds, t \in Types :
          (/\ stack = <<>>
           /\ last_call'.op = "provide_context"
           /\ last_call'.eff = sc /\ last_call'.sig = t)
          => /\ (stack' = <<PanicFrame>>) <=> (contexts[sc][t] # NoVal)
             /\ (stack' = <<>>) <=> (contexts[sc][t] = NoVal)
             /\ contexts'[sc][t] # NoVal
             /\ \A sc2 \in ScopeIds, t2 \in Types :
                   (sc2 # sc \/ t2 # t) => contexts'[sc2][t2] = contexts[sc2][t2]]_vars

\* The root scope provides an i32; its child scope has just provided an i32 of
\* its own, and the call returned.
DuplicateContextWitness ==
    /\ program = "context"
    /\ stack = <<>>
    /\ last_call.op = "provide_context" /\ last_call.eff = 2 /\ last_call.sig = "i32"
    /\ scope_parent[2] = Root
    /\ contexts[Root]["i32"] = Root
    /\ contexts[2]["i32"] = 2

\* The memo or selector of the program has been created.
HasMemo == \E e \in EffectIds : body[e] \in MemoBodies /\ effect[e] # "Absent"

\* C22: memo law.  Whenever the top level can read the memo b, and whenever
\* the callback of an effect other than the memo is about to read it, the
\* value of b is sign applied to the current value of a, the signal its
\* function reads.
MemoLaw ==
    (program \in MemoPrograms /\ HasMemo)
    => /\ Idle => value["b"] = Apply("sign", value["a"])
       /\ (AtOp("get") /\ Instr.sig = "b" /\ BodyOf(Top) \notin MemoBodies)
          => value["b"] = Apply("sign", value["a"])

\* the effects that were alive before the call in progress or just returned
Before(b) == {e \in EffectIds : e <= last_call.ids /\ body[e] = b /\ effect[e] = "Some"}
\* the position of the first invocation of e in the trace
FirstRun(e) == CHOOSE i \in DOMAIN trace : trace[i] = e /\ \A j \in 1..(i - 1) : trace[j] # e

\* C23: a memo always fires.  When a write to a has returned, the memo was
\* invoked, and every effect that reads only the memo was invoked after it,
\* whatever the value the memo recomputed, the stored one included; b is then
\* sign of a.
MemoAlwaysFires ==
    (/\ program = "memo"
     /\ Idle
     /\ last_call.op = "set" /\ last_call.sig = "a")
    => \A m \in Before("memo") :
          /\ m \in Range(trace)
          /\ value["b"] = Apply("sign", value["a"])
          /\ \A w \in Before("watch") :
                /\ w \in Range(trace)
                /\ FirstRun(m) < FirstRun(w)

\* a went from 1 to 2, the memo recomputed the 1 it held, and the effect
\* that reads the memo was invoked.
MemoAlwaysFiresWitness ==
    /\ program = "memo"
    /\ Idle
    /\ last_call.op = "set" /\ last_call.sig = "a"
    /\ last_call.values["a"] = 1 /\ value["a"] = 2
    /\ last_call.values["b"] = 1 /\ value["b"] = 1
    /\ body[1] = "memo" /\ body[2] = "watch"
    /\ trace = <<1, 2>>

\* C24: selector skip.  When a write to a has returned and sign of the new a
\* is the value the selector held, b was not written: the effects that read
\* only the selector were not invoked; when it differs, b holds the new
\* value and each of those effects was invoked.  The selector itself was
\* invoked in both cases.
SelectorSkip ==
    (/\ program = "selector"
     /\ Idle
     /\ last_call.op = "set" /\ last_call.sig = "a")
    => \A m \in Before("selector") :
          /\ m \in Range(trace)
          /\ value["b"] = Apply("sign", value["a"])
          /\ \A w \in Before("watch") :
                IF Apply("sign", value["a"]) = last_call.values["b"]
                THEN w \notin Range(trace)
                ELSE w \in Range(trace)

\* a went from 1 to 2: the selector ran, found the 1 it held, and the effect
\* that reads the selector was not invoked.
SelectorSkipWitness ==
    /\ program = "selector"
    /\ Idle
    /\ last_call.op = "set" /\ last_call.sig = "a"
    /\ last_call.values["a"] = 1 /\ value["a"] = 2
    /\ last_call.values["b"] = 1 /\ value["b"] = 1
    /\ body[1] = "selector" /\ body[2] = "watch"
    /\ trace = <<1>>

\* Closure b contains a write to signal s.
Writes(b, s) == \E i \in DOMAIN Code(b) : Code(b)[i].op = "set" /\ Code(b)[i].sig = s
\* The closures that closure b passes to the runtime, and the closures a
\* program can come to execute (closures nest four deep at most).
Callees(b) == {Code(b)[i].body : i \in DOMAIN Code(b)} \ {"", "never", "eq"}
Nested(S) == S \cup UNION {Callees(b) : b \in S}
Closures(p) == Nested(Nested(Nested(Nested(TopBodies(p) \cup TopChildren(p) \cup TopCleanups(p)))))

\* C25: writes are immediately visible.  During a.set(v) called from the top
\* level the signal holds v while no subscriber has been invoked, and when
\* the first subscriber is invoked; it holds v when the call has returned
\* unless a closure of the program contains a write to it.  The signal a
\* memo creates holds the value it was created with when create_memo returns.
WritesVisible ==
    /\ last_call.op = "set"
       => /\ trace = <<>> => value[last_call.sig] = last_call.val
          /\ (Len(trace) = 1 /\ Len(stack) = 2 /\ Running /\ Top.pc = 1)
             => value[last_call.sig] = last_call.val
          /\ (Idle /\ \A b \in Closures(program) : ~Writes(b, last_call.sig))
             => value[last_call.sig] = last_call.val
    /\ (/\ Idle
        /\ last_call.op = "create_effect"
        /\ body[last_call.eff] \in MemoBodies)
       => value["b"] = Apply("sign", value["a"])

\* a.set(2) on a signal that held 1: the first subscriber has just been
\* invoked and has executed nothing yet; a holds 2.
WritesVisibleWitness ==
    /\ last_call.op = "set" /\ last_call.sig = "a" /\ last_call.val = 2
    /\ last_call.values # <<>> /\ last_call.values["a"] = 1
    /\ Len(trace) = 1 /\ Len(stack) = 2 /\ Running /\ Top.pc = 1
    /\ value["a"] = 2

\* C26: silent writes.  set_silent(v) stores v and take_silent stores the
\* default value and returns the old one; neither invokes a callback nor
\* changes a subscriber map, a dependency set or another signal, so the memo
\* of a keeps its value.  take stores the default value, returns the old one
\* and walks the subscribers: when it has returned, the memo was invoked and
\* holds sign of the default value.
SilentWrites ==
    [][\A s \in Signals :
          (stack = <<>> /\ last_call'.sig = s /\ program = "silent")
          => /\ last_call'.op \in {"set_silent", "take_silent"}
                => /\ value'[s] = last_call'.val
                   /\ stack' = <<>>
                   /\ \A s2 \in Signals \ {s} : value'[s2] = value[s2]
                   /\ UNCHANGED <<subscribers, dependencies, effect, EFFECTS>>
             /\ last_call'.op \in {"take", "take_silent"}
                => /\ value'[s] = Default
                   /\ returned' = value[s]
             /\ last_call'.op = "take"
                => /\ stack' # <<>>
                   /\ stack'[1].kind = "walk" /\ stack'[1].sig = s
                   /\ stack'[1].snap = subscribers[s]]_vars
    /\ [](program = "silent" /\ Idle
          => /\ last_call.op \in {"set_silent", "take_silent"}
                => trace = <<>> /\ value["b"] = last_call.values["b"]
             /\ last_call.op = "take"
                => \A m \in Before("memo") :
                      m \in Range(trace) /\ value["b"] = Apply("sign", Default))

\* The memo of a holds 1; take_silent has returned the 2 that a held and left
\* the default value in a; the memo still holds 1 and nothing was invoked.
SilentWritesWitness ==
    /\ program = "silent"
    /\ Idle
    /\ last_call.op = "take_silent"
    /\ body[1] = "memo" /\ effect[1] = "Some" /\ "a" \in dependencies[1]
    /\ returned = 2 /\ value["a"] = Default
    /\ value["b"] = 1
    /\ trace = <<>>

\* C27: an RcSignal outlives scopes.  Once the root scope, in which the
\* RcSignal a was created, read by effects and written, is freed: a is not
\* among the values the arena destroyed; a holds what it held when the
\* disposer was called; and a write to a made afterwards returns, having
\* invoked no callback, with a holding the value written.
RcSignalOutlives ==
    (program = "rc" /\ scope[Root] = "Freed")
    => /\ "a" \notin Range(arena_items(destroyed))
       /\ last_call.op = "disposer" => value["a"] = last_call.values["a"]
       /\ last_call.op = "set"
          => /\ trace = <<>>
             /\ value["a"] = last_call.val
             /\ Len(stack) <= 1

\* Two effects read a, a was written, the root scope was disposed; a write
\* of 2 to a, which held 1, has walked the two dead subscribers and returned.
RcSignalOutlivesWitness ==
    /\ program = "rc"
    /\ scope[Root] = "Freed"
    /\ Idle
    /\ last_call.op = "set" /\ last_call.sig = "a"
    /\ Len(last_call.before) = 2
    /\ last_call.values["a"] = 1 /\ value["a"] = 2
    /\ \A e \in {1, 2} : effect[e] = "Dropped"

\* C28: effect panic safety.  When the panic of a user callback has left the
\* runtime, that is when every frame of the call the top level made is
\* unwound, EFFECTS is empty as it was before the call and no effect is left
\* with its state out of its cell.
EffectPanicSafety ==
    (program = "panic" /\ stack = <<PanicFrame>>)
    => /\ EFFECTS = <<>>
       /\ \A e \in EffectIds : effect[e] # "None"

\* C29: untrack restores the stack.  Whenever a call of untrack ends, by the
\* return of its closure or unwound by a panic, EFFECTS is again the stack
\* untrack took when it was called.
UntrackRestores ==
    [][/\ (/\ Calling /\ Top.ret = "untrack"
           /\ Len(stack') = Len(stack) - 1)
          => EFFECTS' = Top.saved
       /\ (/\ Len(stack) >= 2 /\ Top.kind = "panic"
           /\ stack[Len(stack) - 1].kind = "call"
           /\ stack[Len(stack) - 1].ret = "untrack"
           /\ Len(stack') = Len(stack) - 1)
          => EFFECTS' = stack[Len(stack) - 1].saved]_vars

\* C30: signal writes are infallible.  In the programs whose user callbacks
\* do not panic, no panic is ever raised above the walk of a write, the
\* writes made by cleanups during a disposal included.
SetInfallible ==
    program # "panic"
    => \A i, j \in DOMAIN stack :
          (i < j /\ stack[i].kind = "walk") => stack[j].kind # "panic"

\* C31: bounded subscriber maps.  When a top-level write has returned, the
\* emitter it walked holds no entry for an effect that was dropped with its
\* scope: the walk removed the entries whose handle failed to upgrade.
BoundedSubscriberMaps ==
    (Idle /\ last_call.op = "set")
    => \A e \in Range(subscribers[last_call.sig]) : effect[e] # "Dropped"

\* C32: keyed mapping.  When the call that created the mapping or changed the
\* input list has returned, the output lists the mapped values of the keys of
\* the input in input order, each made in a live child scope of its own, and
\* the template was called once for each key that entered the list and for no
\* other; a key that stays mapped keeps its value from one step to the next;
\* and whenever the template is called, the child scope of every key that
\* left the list has been disposed.
KeyedMapping ==
    /\ [](( /\ program = "keyed"
            /\ Idle
            /\ body[1] = "map_keyed"
            /\ \/ last_call.op = "create_effect"
               \/ last_call.op = "set" /\ last_call.ids >= 1)
          => LET list == Lists(value["c"])
                 old == IF last_call.op = "set" THEN Lists(last_call.values["c"]) ELSE <<>>
             IN /\ Len(mapped) = Len(list)
                /\ Len(output) = Len(list)
                /\ \A i \in DOMAIN list :
                      /\ mapped[i].key = list[i]
                      /\ output[i] = mapped[i].scope
                      /\ scope[mapped[i].scope] = "Live"
                      /\ scope_parent[mapped[i].scope] = Root
                /\ \A i, j \in DOMAIN mapped : i < j => mapped[i].scope # mapped[j].scope
                /\ templated = SelectSeq(list, LAMBDA k : k \notin Range(old)))
    /\ [][program = "keyed"
          => /\ \A i \in DOMAIN mapped, j \in DOMAIN mapped' :
                   mapped[i].key = mapped'[j].key => mapped[i] = mapped'[j]
             /\ Len(templated') > Len(templated)
                => \A i \in DOMAIN mapped :
                      mapped[i].key \notin Range(Lists(Top.acc))
                      => scope[mapped[i].scope] = "Freed"]_vars

\* The input went from [1] to [2, 1]: the value of key 1 is the one made in
\* scope 2 when the mapping was created, now in second place, and the template
\* was called for key 2 only, in the new scope 3.
KeyedMappingWitness ==
    /\ program = "keyed"
    /\ Idle
    /\ last_call.op = "set" /\ last_call.sig = "c"
    /\ last_call.values["c"] = 0 /\ value["c"] = 2
    /\ output = <<3, 2>>
    /\ templated = <<2>>

\* C33: run protocol ordering.  An effect whose callback is executing is in
\* no subscriber map, and its dependency set is empty when its user function
\* is about to be called; outside the unit test of the emitter, an effect
\* enters a subscriber map only in the step that ends its run, and only the
\* maps of the emitters it collected.
RunProtocolOrdering ==
    /\ [](/\ \A i \in DOMAIN stack :
                stack[i].kind = "run"
                => \A s \in Signals : stack[i].eff \notin Range(subscribers[s])
          /\ (Running /\ Top.pc = 1) => dependencies[Top.eff] = {})
    /\ [][\A e \in EffectIds, s \in Signals :
             (/\ program # "emitter"
              /\ e \notin Range(subscribers[s])
              /\ e \in Range(subscribers'[s]))
             => /\ Running
                /\ Top.eff = e
                /\ Top.pc > Len(Code(body[e]))
                /\ Len(stack') = Len(stack) - 1
                /\ s \in dependencies[e]]_vars

\* The doubling effect was subscribed to a when a.set(v) began; the walk has
\* called it, it has read a again and is about to write b: it is in no
\* subscriber map and a is in its new dependency set.
RunProtocolOrderingWitness ==
    /\ program = "effect"
    /\ last_call.op = "set" /\ last_call.sig = "a"
    /\ last_call.before = <<1>>
    /\ Len(stack) = 2 /\ Running /\ Top.eff = 1 /\ Top.pc = 2
    /\ subscribers["a"] = <<>>
    /\ dependencies[1] = {"a"}

\* C34: execution stack balance.  In the programs whose user callbacks do not
\* panic, when the user function of an effect has returned EFFECTS is the
\* stack the callback found with the effect on top, so that the pop leaves
\* the length and the content the run began with, and EFFECTS is empty
\* whenever no effect callback is on the call stack.
StackBalance ==
    program # "panic"
    => /\ (\A i \in DOMAIN stack : stack[i].kind # "run") => EFFECTS = <<>>
       /\ (Running /\ Top.pc > Len(Code(body[Top.eff])))
          => /\ EFFECTS = Append(Top.saved, Top.eff)
             /\ Len(Top.saved) = Top.len

\* C35: no dangling dependency.  The runtime never dereferences the emitter of
\* a destroyed signal: not when a walk calls an effect, which unsubscribes it
\* from the emitters of its dependency set, not when a run ends and subscribes
\* the effect to the emitters it collected, not when a callback reads.
NoDanglingDependency == ~DerefsDangling

\* C36: no lost update.  When a write made from the top level has returned,
\* every live effect has, in its latest run, read every signal of its
\* dependency set after the latest write another effect or the top level made
\* to it: a run that began after the write does.
NoLostUpdate ==
    (Idle /\ last_call.op = "set")
    => \A e \in EffectIds :
          effect[e] = "Some" => dependencies[e] \cap unseen[e] = {}

\* C37: no spurious run from a stale snapshot.  The walk of the subscribers
\* of a signal calls an effect only while the signal is in the dependency set
\* of the effect.
NoSpuriousRun ==
    (/\ Walking
     /\ Top.idx > 0
     /\ upgrade(Top.snap[Top.idx])
     /\ try_borrow_mut(Top.snap[Top.idx]))
    => Top.sig \in dependencies[Top.snap[Top.idx]]

\* C38: single evaluation per memo run.  When the closure of a memo or a
\* selector writes its output signal, and when its run ends, it has called
\* the user function once in this run, and the value it writes is the value
\* it handed to the equality function.
SingleEvaluation ==
    (Running /\ body[Top.eff] \in MemoBodies)
    => /\ AtOp("set") => /\ Top.calls = 1
                         /\ Apply(Instr.f, Top.acc) = Top.new
       /\ Top.pc > Len(Code(body[Top.eff])) => Top.calls = 1

\* The effect whose callback is the innermost one executing: the effect of
\* the topmost run on the call stack, 0 when no callback is executing.
InnermostRun ==
    LET I == {i \in DOMAIN stack : stack[i].kind = "run"}
    IN IF I = {} THEN 0
       ELSE stack[CHOOSE i \in I : \A j \in I : j <= i].eff

\* C39: innermost attribution.  A signal enters the dependency set of an
\* effect only in a step that is a tracked read of that signal made while
\* the callback of that effect is the innermost one executing, and a tracked
\* read that this callback makes outside untrack and outside the cleanups of a
\* disposal enters the set of the effect, also after a nested run has
\* returned.
InnermostAttribution ==
    [][/\ \A e \in EffectIds : \A s \in dependencies'[e] \ dependencies[e] :
             /\ AtOp("get") \/ AtOp("eq_old")
             /\ Instr.sig = s
             /\ InnermostRun = e
       /\ (/\ AtOp("get") \/ AtOp("eq_old")
           /\ Top.eff # 0 /\ Top.eff = InnermostRun /\ ~Top.shield
           /\ stack' # stack /\ Len(stack') = Len(stack))
          => Instr.sig \in dependencies'[InnermostRun]]_vars

\* An effect that created another effect and then read a has a in its
\* dependency set and not b, which the effect it created read.
InnermostAttributionWitness ==
    /\ program = "attrib"
    /\ Idle
    /\ body[1] = "after"
    /\ body[2] = "watch" /\ parent[2] = 1
    /\ dependencies[1] = {"a"}
    /\ dependencies[2] = {"b"}

\* C40: a failed provide_context leaves the scope unchanged.  The map of a
\* scope only ever holds the value the scope provided first for a type, a
\* lookup returns that value, and the values the disposal of the scope
\* destroys are the values it provided first.
FailedProvideKeepsValue ==
    /\ \A sc \in ScopeIds, t \in Types : contexts[sc][t] \in {NoVal, sc}
    /\ (Idle /\ last_call.op \in {"use_context", "try_use_context"} /\ returned # NoVal)
       => returned = Provider(last_call.eff, last_call.sig)
    /\ \A k \in DOMAIN destroyed :
          destroyed[k].kind = "contexts" => destroyed[k].item = destroyed[k].scope

====
